---- MODULE Spec2Model ----
(***************************************************************************)
(* The conversation pipeline of the travel assistant                       *)
(* (scripts/langgraph_workflow.py) with its collaborators: the DeepSeek    *)
(* completion client (scripts/deepseek_client.py), the search and booking  *)
(* stubs (scripts/external_apis.py), the conversation store                *)
(* (scripts/database.py) and the HTTP entry point (scripts/api_routes.py). *)
(*                                                                         *)
(* One request is in flight at a time.  Every graph node is one action:    *)
(* a node touches the store only in code without an await, and the awaits  *)
(* (the completion and search calls) touch nothing but the turn's own      *)
(* state.  What a collaborator answers is chosen with \E from small sets.  *)
(***************************************************************************)
EXTENDS Integers, Sequences, FiniteSets, TLC

(* ------------------------------------------------------------------ *)
(* Bounds of the model                                                *)
(* ------------------------------------------------------------------ *)

\* Requests run_workflow is called for in one behaviour.
MaxTurns == 1

\* Turns that ran before the behaviour begins, in the specification of
\* the history read.
MaxEarlierTurns == 7

(* ------------------------------------------------------------------ *)
(* Python and JSON values                                             *)
(* ------------------------------------------------------------------ *)

\* Python's None where the other values are strings (Optional[str]).
None == "None"

\* Optional values that are not strings (Optional[List], Optional[Dict]).
Absent == [present |-> FALSE]
Present(x) == [present |-> TRUE, value |-> x]

\* A dict is a function on its keys; {} is the function on no key.
EmptyDict == <<>>

Range(f) == {f[x] : x \in DOMAIN f}

\* dict.get(key, default)
Get(d, key, default) == IF key \in DOMAIN d THEN d[key] ELSE default

\* JSON values as json.loads returns them, tagged by their JSON type.
JNull == [j |-> "null"]
JStr(s) == [j |-> "str", v |-> s]
JNum(n) == [j |-> "num", v |-> n]
JList(l) == [j |-> "list", v |-> l]
JObj(d) == [j |-> "obj", v |-> d]

\* The outcome of a call that may raise.
Raised == [ok |-> FALSE]
Returned(x) == [ok |-> TRUE, value |-> x]

\* Floats are counted in hundredths: 0.5 is 50, 1.0 is 100.
ConfidenceMin == 0
ConfidenceMax == 100
FallbackConfidence == 50
DefaultConfidence == 0

(* ------------------------------------------------------------------ *)
(* models.py                                                          *)
(* ------------------------------------------------------------------ *)

SEARCH_FLIGHT == "search_flight"
SEARCH_HOTEL == "search_hotel"
BOOK_TRIP == "book_trip"
GENERAL_INQUIRY == "general_inquiry"
GREETING == "greeting"

IntentType == {SEARCH_FLIGHT, SEARCH_HOTEL, BOOK_TRIP, GENERAL_INQUIRY, GREETING}

\* int(x) on an entity value: a JSON number, or a string of digits.
DigitStrings == ("0" :> 0) @@ ("1" :> 1) @@ ("2" :> 2) @@ ("12" :> 12)

PyInt(x) ==
    IF x.j = "num" THEN Returned(x.v)
    ELSE IF x.j = "str" /\ x.v \in DOMAIN DigitStrings THEN Returned(DigitStrings[x.v])
    ELSE Raised

\* A str field of a pydantic model: a JSON string passes, null does not.
IsStr(x) == x.j = "str"

PassengersMin == 1
PassengersMax == 9
GuestsMin == 1
GuestsMax == 10
RoomsMin == 1
RoomsMax == 5

\* The flight request with class_type defaulting to the empty string, as
\* the other text fields do.
FlightSearchRequest_NoClassDefault(entities) ==
    LET n == PyInt(Get(entities, "passengers", JNum(1)))
        origin == Get(entities, "origin", JStr(""))
        destination == Get(entities, "destination", JStr(""))
        departure_date == Get(entities, "departure_date", JStr(""))
        class_type == Get(entities, "class_type", JStr(""))
    IN  IF /\ n.ok
           /\ n.value >= PassengersMin /\ n.value <= PassengersMax
           /\ IsStr(origin) /\ IsStr(destination)
           /\ IsStr(departure_date) /\ IsStr(class_type)
        THEN Returned([origin |-> origin.v,
                       destination |-> destination.v,
                       departure_date |-> departure_date.v,
                       return_date |-> Get(entities, "return_date", JNull),
                       passengers |-> n.value,
                       class_type |-> class_type.v])
        ELSE Raised

\* FlightSearchRequest(origin=..., ..., passengers=int(...), class_type=...)
FlightSearchRequest(entities) ==
    LET n == PyInt(Get(entities, "passengers", JNum(1)))
        origin == Get(entities, "origin", JStr(""))
        destination == Get(entities, "destination", JStr(""))
        departure_date == Get(entities, "departure_date", JStr(""))
        class_type == Get(entities, "class_type", JStr("economy"))
    IN  IF /\ n.ok
           /\ n.value >= PassengersMin /\ n.value <= PassengersMax
           /\ IsStr(origin) /\ IsStr(destination)
           /\ IsStr(departure_date) /\ IsStr(class_type)
        THEN Returned([origin |-> origin.v,
                       destination |-> destination.v,
                       departure_date |-> departure_date.v,
                       return_date |-> Get(entities, "return_date", JNull),
                       passengers |-> n.value,
                       class_type |-> class_type.v])
        ELSE Raised

\* The hotel request without the bounds of guests and rooms
HotelSearchRequest_NoBounds(entities) ==
    LET g == PyInt(Get(entities, "guests", JNum(1)))
        r == PyInt(Get(entities, "rooms", JNum(1)))
        location == Get(entities, "location", JStr(""))
        check_in == Get(entities, "check_in", JStr(""))
        check_out == Get(entities, "check_out", JStr(""))
    IN  IF /\ g.ok /\ r.ok
           /\ IsStr(location) /\ IsStr(check_in) /\ IsStr(check_out)
        THEN Returned([location |-> location.v,
                       check_in |-> check_in.v,
                       check_out |-> check_out.v,
                       guests |-> g.value,
                       rooms |-> r.value])
        ELSE Raised

\* HotelSearchRequest(location=..., ..., guests=int(...), rooms=int(...))
HotelSearchRequest(entities) ==
    LET g == PyInt(Get(entities, "guests", JNum(1)))
        r == PyInt(Get(entities, "rooms", JNum(1)))
        location == Get(entities, "location", JStr(""))
        check_in == Get(entities, "check_in", JStr(""))
        check_out == Get(entities, "check_out", JStr(""))
    IN  IF /\ g.ok /\ r.ok
           /\ g.value >= GuestsMin /\ g.value <= GuestsMax
           /\ r.value >= RoomsMin /\ r.value <= RoomsMax
           /\ IsStr(location) /\ IsStr(check_in) /\ IsStr(check_out)
        THEN Returned([location |-> location.v,
                       check_in |-> check_in.v,
                       check_out |-> check_out.v,
                       guests |-> g.value,
                       rooms |-> r.value])
        ELSE Raised

\* UIElement(**element): type, text and action are required strings.
UIElementRequired == {"type", "text", "action"}

UIElement(element) ==
    IF /\ element.j = "obj"
       /\ UIElementRequired \subseteq DOMAIN element.v
       /\ \A k \in UIElementRequired : IsStr(element.v[k])
    THEN Returned([type |-> element.v["type"].v,
                   text |-> element.v["text"].v,
                   action |-> element.v["action"].v])
    ELSE Raised

\* ExtractedEntities(intent=IntentType(...), confidence=..., entities=...)
ExtractedEntities(intent, confidence, entities) ==
    IF /\ intent.j = "str" /\ intent.v \in IntentType
       /\ confidence.j = "num"
       /\ confidence.v >= ConfidenceMin /\ confidence.v <= ConfidenceMax
       /\ entities.j = "obj"
    THEN Returned([intent |-> intent.v,
                   confidence |-> confidence.v,
                   entities |-> entities.v])
    ELSE Raised

(* ------------------------------------------------------------------ *)
(* deepseek_client.py                                                 *)
(* ------------------------------------------------------------------ *)

\* The text of a completion, cut into the pieces the client tells apart:
\* prose, the opening fence ```json, a bare fence ```, and text that
\* json.loads parses (to v).
Prose == [t |-> "prose", v |-> JNull]
FenceOpen == [t |-> "fence_json", v |-> JNull]
Fence == [t |-> "fence", v |-> JNull]
Json(x) == [t |-> "json", v |-> x]

\* The first index from i on whose piece is of one of the kinds, or 0.
RECURSIVE FirstIndex(_, _, _)
FirstIndex(text, i, kinds) ==
    IF i > Len(text) THEN 0
    ELSE IF text[i].t \in kinds THEN i
    ELSE FirstIndex(text, i + 1, kinds)

\* re.search(r"```json\s*(.*?)\s*```", text, re.DOTALL): what stands between
\* the first ```json and the next ``` (which an opening fence starts with
\* too); without a match, the text as it is.
ExtractJsonFromMarkdown(text) ==
    LET open == FirstIndex(text, 1, {"fence_json"})
        close == IF open = 0 THEN 0
                 ELSE FirstIndex(text, open + 1, {"fence", "fence_json"})
    IN  IF open # 0 /\ close # 0 THEN SubSeq(text, open + 1, close - 1) ELSE text

\* json.loads: the text must be one JSON document and nothing else.
JsonLoads(text) ==
    IF Len(text) = 1 /\ text[1].t = "json" THEN Returned(text[1].v) ELSE Raised

\* _make_request: raises on a transport error, a non-2xx status, an envelope
\* without choices, or empty content; else returns the content.
MakeRequest(reply) ==
    IF reply.status = "ok" /\ reply.content # <<>>
    THEN Returned(reply.content)
    ELSE Raised

ExtractFallback ==
    [intent |-> GENERAL_INQUIRY, confidence |-> FallbackConfidence, entities |-> EmptyDict]

\* The try of the extraction with parsed.get("confidence", 0.5)
DeepSeekExtractTry_HalfDefault(reply) ==
    LET response == MakeRequest(reply)
        parsed == IF response.ok
                  THEN JsonLoads(ExtractJsonFromMarkdown(response.value))
                  ELSE Raised
    IN  IF parsed.ok /\ parsed.value.j = "obj" /\ "intent" \in DOMAIN parsed.value.v
        THEN ExtractedEntities(
                 parsed.value.v["intent"],
                 Get(parsed.value.v, "confidence", JNum(FallbackConfidence)),
                 Get(parsed.value.v, "entities", JObj(EmptyDict)))
        ELSE Raised

\* DeepSeekClient.extract_intent_and_entities, the body of its try: the
\* request, the parse, and ExtractedEntities(intent=IntentType(parsed["intent"]),
\* confidence=parsed.get("confidence", 0.0), entities=parsed.get("entities", {})).
DeepSeekExtractTry(reply) ==
    LET response == MakeRequest(reply)
        parsed == IF response.ok
                  THEN JsonLoads(ExtractJsonFromMarkdown(response.value))
                  ELSE Raised
    IN  IF parsed.ok /\ parsed.value.j = "obj" /\ "intent" \in DOMAIN parsed.value.v
        THEN ExtractedEntities(
                 parsed.value.v["intent"],
                 Get(parsed.value.v, "confidence", JNum(DefaultConfidence)),
                 Get(parsed.value.v, "entities", JObj(EmptyDict)))
        ELSE Raised

\* The fallback with the confidence of a payload that names none.
DeepSeekExtract_DefaultConfidence(reply) ==
    LET built == DeepSeekExtractTry(reply)
    IN  Returned(IF built.ok THEN built.value
                 ELSE [ExtractFallback EXCEPT !.confidence = DefaultConfidence])

\* DeepSeekClient.extract_intent_and_entities: any exception in the try
\* returns the fallback; nothing is raised to the caller.
DeepSeekExtract(reply) ==
    LET built == DeepSeekExtractTry(reply)
    IN  Returned(IF built.ok THEN built.value ELSE ExtractFallback)

\* for element in parsed["ui_elements"]: ui_elements.append(UIElement(**element))
\* The loop stops at the first element that does not validate; value is the
\* list built so far.
RECURSIVE AppendUIElements(_, _, _)
AppendUIElements(elements, i, built) ==
    IF i > Len(elements) THEN [ok |-> TRUE, value |-> built]
    ELSE LET e == UIElement(elements[i])
         IN  IF e.ok THEN AppendUIElements(elements, i + 1, Append(built, e.value))
             ELSE [ok |-> FALSE, value |-> built]

\* A JSON value as the str the caller stores: a string, or None for null.
PyStr(x) == IF x.j = "str" THEN x.v ELSE None

GenerateApology ==
    "I apologize, but I'm having trouble processing your request right now. Please try again."

GenerateFallback == [message |-> GenerateApology, ui_elements |-> <<>>]

\* generate_response returning, with the apology, the elements it had
\* appended when one failed to validate.
DeepSeekGenerateTry_PartialList(reply) ==
    LET response == MakeRequest(reply)
        parsed == IF response.ok
                  THEN JsonLoads(ExtractJsonFromMarkdown(response.value))
                  ELSE Raised
        is_obj == parsed.ok /\ parsed.value.j = "obj"
        ui == IF is_obj /\ "ui_elements" \in DOMAIN parsed.value.v
                 /\ parsed.value.v["ui_elements"].j = "list"
              THEN AppendUIElements(parsed.value.v["ui_elements"].v, 1, <<>>)
              ELSE [ok |-> TRUE, value |-> <<>>]
    IN  IF is_obj /\ ui.ok
        THEN [message |-> PyStr(Get(parsed.value.v, "message", JStr(""))),
              ui_elements |-> ui.value]
        ELSE [message |-> GenerateApology, ui_elements |-> ui.value]

\* DeepSeekClient.generate_response from its try on.  A parsed payload
\* without "message" yields message "" (parsed.get("message", "")).
DeepSeekGenerateTry(reply) ==
    LET response == MakeRequest(reply)
        parsed == IF response.ok
                  THEN JsonLoads(ExtractJsonFromMarkdown(response.value))
                  ELSE Raised
        is_obj == parsed.ok /\ parsed.value.j = "obj"
        ui == IF is_obj /\ "ui_elements" \in DOMAIN parsed.value.v
                 /\ parsed.value.v["ui_elements"].j = "list"
              THEN AppendUIElements(parsed.value.v["ui_elements"].v, 1, <<>>)
              ELSE [ok |-> TRUE, value |-> <<>>]
    IN  IF is_obj /\ ui.ok
        THEN [message |-> PyStr(Get(parsed.value.v, "message", JStr(""))),
              ui_elements |-> ui.value]
        ELSE GenerateFallback

\* DeepSeekClient.generate_response: the prompt is built before the try
\* and reads intent.value, which raises when intent is None.
DeepSeekGenerate(reply, intent) ==
    IF intent = None THEN Raised ELSE Returned(DeepSeekGenerateTry(reply))

(* ------------------------------------------------------------------ *)
(* external_apis.py                                                   *)
(* ------------------------------------------------------------------ *)

\* The stubs draw 3..8 flights and 4..10 hotels at random; nothing after
\* them reads more of the list than its length, and the model keeps the
\* smallest list.
FlightCount == 3
HotelCount == 4

\* MockExternalAPIs.search_flights; answer is whether the collaborator
\* answers or fails.
ExternalSearchFlights(request, answer) ==
    IF answer = "ok"
    THEN Returned([i \in 1..FlightCount |->
                      [flight_id |-> i,
                       origin |-> request.origin,
                       destination |-> request.destination]])
    ELSE Raised

\* MockExternalAPIs.search_hotels
ExternalSearchHotels(request, answer) ==
    IF answer = "ok"
    THEN Returned([i \in 1..HotelCount |->
                      [hotel_id |-> i, location |-> request.location]])
    ELSE Raised

\* MockExternalAPIs.create_booking: booking_type.upper() needs a str.
ExternalCreateBooking(booking_type, item_id, booking_details, answer) ==
    IF answer = "ok" /\ IsStr(booking_type) /\ IsStr(item_id)
    THEN Returned([booking_type |-> booking_type.v,
                   status |-> "confirmed",
                   booking_details |-> booking_details])
    ELSE Raised

(* ------------------------------------------------------------------ *)
(* database.py                                                        *)
(* ------------------------------------------------------------------ *)

\* MessageCreate(...): content is a required str.
MessageCreate(session_id, user_id, message_type, content, metadata) ==
    IF content = None THEN Raised
    ELSE Returned([session_id |-> session_id,
                   user_id |-> user_id,
                   message_type |-> message_type,
                   content |-> content,
                   metadata |-> metadata])

\* create_message writing over the session's row of the same type and
\* content when there is one, instead of adding a row.
CreateMessage_Overwrite(messages, message, ts) ==
    LET same == {i \in 1..Len(messages) :
                    /\ messages[i].session_id = message.session_id
                    /\ messages[i].message_type = message.message_type
                    /\ messages[i].content = message.content}
    IN  IF same # {}
        THEN LET i == CHOOSE k \in same : \A l \in same : k <= l
             IN  [messages EXCEPT ![i].extra_metadata = message.metadata,
                                  ![i].timestamp = ts]
        ELSE Append(messages,
                    [id |-> Len(messages) + 1,
                     session_id |-> message.session_id,
                     user_id |-> message.user_id,
                     message_type |-> message.message_type,
                     content |-> message.content,
                     extra_metadata |-> message.metadata,
                     timestamp |-> ts])

\* DatabaseManager.create_message: one row added and committed.  ts is
\* the column default datetime.utcnow.
CreateMessage(messages, message, ts) ==
    Append(messages,
           [id |-> Len(messages) + 1,
            session_id |-> message.session_id,
            user_id |-> message.user_id,
            message_type |-> message.message_type,
            content |-> message.content,
            extra_metadata |-> message.metadata,
            timestamp |-> ts])

\* reversed(rows)
RECURSIVE Reversed(_)
Reversed(rows) ==
    IF rows = <<>> THEN <<>> ELSE Append(Reversed(Tail(rows)), Head(rows))

\* The row of rows with the latest timestamp (the later row on a tie).
RECURSIVE LatestIndex(_, _, _)
LatestIndex(rows, i, best) ==
    IF i > Len(rows) THEN best
    ELSE LatestIndex(rows, i + 1,
                     IF rows[i].timestamp >= rows[best].timestamp THEN i ELSE best)

Without(rows, i) == SubSeq(rows, 1, i - 1) \o SubSeq(rows, i + 1, Len(rows))

\* order_by(timestamp.desc())
RECURSIVE OrderByTimestampDesc(_)
OrderByTimestampDesc(rows) ==
    IF rows = <<>> THEN <<>>
    ELSE LET i == LatestIndex(rows, 1, 1)
         IN  <<rows[i]>> \o OrderByTimestampDesc(Without(rows, i))

\* get_conversation_history ordering by timestamp ascending
GetConversationHistory_OldestFirst(messages, session_id, limit) ==
    LET rows == Reversed(OrderByTimestampDesc(
                    SelectSeq(messages, LAMBDA m : m.session_id = session_id)))
    IN  IF limit # 0 /\ Len(rows) > limit THEN SubSeq(rows, 1, limit) ELSE rows

\* get_conversation_history without the filter on session_id
GetConversationHistory_AllSessions(messages, session_id, limit) ==
    LET rows == OrderByTimestampDesc(messages)
    IN  IF limit # 0 /\ Len(rows) > limit THEN SubSeq(rows, 1, limit) ELSE rows

\* DatabaseManager.get_conversation_history: the session's rows, latest
\* first, cut to limit when a limit is given (0: none).
GetConversationHistory(messages, session_id, limit) ==
    LET rows == OrderByTimestampDesc(
                    SelectSeq(messages, LAMBDA m : m.session_id = session_id))
    IN  IF limit # 0 /\ Len(rows) > limit THEN SubSeq(rows, 1, limit) ELSE rows

\* .filter(session_id == ...).first(): the index of the session's row, or 0.
RECURSIVE SessionIndex(_, _, _)
SessionIndex(sessions, session_id, i) ==
    IF i > Len(sessions) THEN 0
    ELSE IF sessions[i].session_id = session_id THEN i
    ELSE SessionIndex(sessions, session_id, i + 1)

\* create_or_update_session writing created_at as well when the row exists
CreateOrUpdateSession_ResetCreatedAt(sessions, session_id, user_id, ts) ==
    LET i == SessionIndex(sessions, session_id, 1)
    IN  IF i # 0
        THEN [sessions EXCEPT ![i].last_activity = ts, ![i].created_at = ts]
        ELSE Append(sessions,
                    [session_id |-> session_id,
                     user_id |-> user_id,
                     created_at |-> ts,
                     last_activity |-> ts,
                     context |-> None])

\* create_or_update_session adding a row without looking for the session's
CreateOrUpdateSession_AlwaysInsert(sessions, session_id, user_id, ts) ==
    Append(sessions,
           [session_id |-> session_id,
            user_id |-> user_id,
            created_at |-> ts,
            last_activity |-> ts,
            context |-> None])

\* DatabaseManager.create_or_update_session with context None: the row's
\* last_activity is set, or a row is added whose created_at and
\* last_activity take the column default datetime.utcnow.
CreateOrUpdateSession(sessions, session_id, user_id, ts) ==
    LET i == SessionIndex(sessions, session_id, 1)
    IN  IF i # 0
        THEN [sessions EXCEPT ![i].last_activity = ts]
        ELSE Append(sessions,
                    [session_id |-> session_id,
                     user_id |-> user_id,
                     created_at |-> ts,
                     last_activity |-> ts,
                     context |-> None])

(* ------------------------------------------------------------------ *)
(* langgraph_workflow.py: the nodes, as functions of the turn state   *)
(* ------------------------------------------------------------------ *)

HistoryLimit == 10

WorkflowApology ==
    "I apologize, but I'm having trouble processing your request right now."

RunWorkflowApology ==
    "I apologize, but I encountered an error processing your request. Please try again."

\* str.strip() on the messages of the model.
Strip(s) == CASE s = " hi " -> "hi" [] s = "  " -> "" [] OTHER -> s

\* run_workflow: initial_state = WorkflowState(...)
InitialState(user_input, session_id, user_id) ==
    [session_id |-> session_id,
     user_id |-> user_id,
     user_input |-> user_input,
     conversation_history |-> <<>>,
     intent |-> None,
     entities |-> EmptyDict,
     confidence |-> 0,
     api_results |-> Absent,
     response_message |-> "",
     ui_elements |-> <<>>,
     error |-> None]

\* f"{msg.message_type}: {msg.content}" for each row, oldest first
HistoryLines(rows) ==
    LET r == Reversed(rows)
    IN  [i \in 1..Len(r) |-> <<r[i].message_type, r[i].content>>]

\* preprocess_input assigning the cleaned input inside its try, after the
\* history read.
PreprocessInput_StripInTry(st, messages, db) ==
    IF db = "ok"
    THEN [st EXCEPT
             !.conversation_history =
                 HistoryLines(GetConversationHistory(messages, st.session_id, HistoryLimit)),
             !.user_input = Strip(st.user_input)]
    ELSE [st EXCEPT !.conversation_history = <<>>]

\* preprocess_input; db is whether the history read answers or fails.
PreprocessInput(st, messages, db) ==
    [st EXCEPT
        !.conversation_history =
            IF db = "ok"
            THEN HistoryLines(GetConversationHistory(messages, st.session_id, HistoryLimit))
            ELSE <<>>,
        !.user_input = Strip(st.user_input)]

\* extract_intent_and_entities
ExtractIntentAndEntities(st, reply) ==
    LET extracted == DeepSeekExtract(reply)
    IN  IF extracted.ok
        THEN [st EXCEPT !.intent = extracted.value.intent,
                        !.entities = extracted.value.entities,
                        !.confidence = extracted.value.confidence]
        ELSE [st EXCEPT !.intent = GENERAL_INQUIRY,
                        !.entities = EmptyDict,
                        !.confidence = FallbackConfidence,
                        !.error = "intent extraction failed"]

\* route_condition with the hotel test returning the flight branch
RouteCondition_HotelAsFlight(intent) ==
    IF intent = SEARCH_FLIGHT THEN "search_flight"
    ELSE IF intent = SEARCH_HOTEL THEN "search_flight"
    ELSE IF intent = BOOK_TRIP THEN "book_trip"
    ELSE "general"

\* route_condition
RouteCondition(intent) ==
    IF intent = SEARCH_FLIGHT THEN "search_flight"
    ELSE IF intent = SEARCH_HOTEL THEN "search_hotel"
    ELSE IF intent = BOOK_TRIP THEN "book_trip"
    ELSE "general"

\* _build_graph: add_conditional_edges("route_request", route_condition, {...})
ConditionalEdges ==
    ("search_flight" :> "search_flights") @@
    ("search_hotel" :> "search_hotels") @@
    ("book_trip" :> "create_booking") @@
    ("general" :> "handle_general")

\* The edges with the store ahead of the generation
Edges_StoreBeforeGenerate ==
    ("preprocess_input" :> "extract_intent") @@
    ("extract_intent" :> "route_request") @@
    ("search_flights" :> "store_conversation") @@
    ("search_hotels" :> "store_conversation") @@
    ("create_booking" :> "store_conversation") @@
    ("handle_general" :> "store_conversation") @@
    ("store_conversation" :> "generate_response") @@
    ("generate_response" :> "END")

\* _build_graph: add_edge(...); the node that follows each node.
Edges ==
    ("preprocess_input" :> "extract_intent") @@
    ("extract_intent" :> "route_request") @@
    ("search_flights" :> "generate_response") @@
    ("search_hotels" :> "generate_response") @@
    ("create_booking" :> "generate_response") @@
    ("handle_general" :> "generate_response") @@
    ("generate_response" :> "store_conversation") @@
    ("store_conversation" :> "END")

\* search_flights
SearchFlights(st, answer) ==
    LET flight_request == FlightSearchRequest(st.entities)
        flights == IF flight_request.ok
                   THEN ExternalSearchFlights(flight_request.value, answer)
                   ELSE Raised
    IN  IF flights.ok
        THEN [st EXCEPT !.api_results = Present(flights.value)]
        ELSE [st EXCEPT !.error = IF flight_request.ok THEN "flight search failed"
                                  ELSE "invalid flight request",
                        !.api_results = Present(<<>>)]

\* search_hotels
SearchHotels(st, answer) ==
    LET hotel_request == HotelSearchRequest(st.entities)
        hotels == IF hotel_request.ok
                  THEN ExternalSearchHotels(hotel_request.value, answer)
                  ELSE Raised
    IN  IF hotels.ok
        THEN [st EXCEPT !.api_results = Present(hotels.value)]
        ELSE [st EXCEPT !.error = IF hotel_request.ok THEN "hotel search failed"
                                  ELSE "invalid hotel request",
                        !.api_results = Present(<<>>)]

\* create_booking
CreateBooking(st, answer) ==
    LET booking_type == Get(st.entities, "booking_type", JStr("flight"))
        item_id == Get(st.entities, "booking_id", JStr(""))
        booking == ExternalCreateBooking(booking_type, item_id, st.entities, answer)
    IN  IF booking.ok
        THEN [st EXCEPT !.api_results = Present(<<booking.value>>)]
        ELSE [st EXCEPT !.error = "booking failed",
                        !.api_results = Present(<<>>)]

\* The calls a branch makes to external_apis, in order.  A search is
\* called when its request was built; create_booking is always called.
SearchFlightsCalls(st) ==
    LET flight_request == FlightSearchRequest(st.entities)
    IN  IF flight_request.ok
        THEN <<[api |-> "search_flights", request |-> flight_request.value]>>
        ELSE <<>>

SearchHotelsCalls(st) ==
    LET hotel_request == HotelSearchRequest(st.entities)
    IN  IF hotel_request.ok
        THEN <<[api |-> "search_hotels", request |-> hotel_request.value]>>
        ELSE <<>>

CreateBookingCalls(st) ==
    <<[api |-> "create_booking",
       request |-> [booking_type |-> Get(st.entities, "booking_type", JStr("flight")),
                    item_id |-> Get(st.entities, "booking_id", JStr("")),
                    booking_details |-> st.entities]]>>

\* The general branch searching flights with what entities there are
HandleGeneralCalls_Search(st) == SearchFlightsCalls(st)

\* handle_general_inquiry calls nothing of external_apis.
HandleGeneralCalls(st) == <<>>

\* handle_general_inquiry
HandleGeneralInquiry(st) == [st EXCEPT !.api_results = Present(<<>>)]

\* generate_response
GenerateResponse(st, reply) ==
    LET response_data == DeepSeekGenerate(reply, st.intent)
    IN  IF response_data.ok
        THEN [st EXCEPT !.response_message = response_data.value.message,
                        !.ui_elements = response_data.value.ui_elements]
        ELSE [st EXCEPT !.response_message = WorkflowApology,
                        !.ui_elements = <<>>,
                        !.error = "response generation failed"]

\* store_conversation: metadata of the user row
UserMetadata(st) ==
    [intent |-> st.intent, entities |-> st.entities, confidence |-> st.confidence]

\* store_conversation: metadata of the assistant row
AssistantMetadata(st) ==
    [ui_elements |-> st.ui_elements,
     api_results_count |->
        IF st.api_results.present /\ st.api_results.value # <<>>
        THEN Len(st.api_results.value) ELSE 0]

\* store_conversation replacing the turn's message by the apology when a
\* write fails.
StoreConversation_ApologyOnFailure(st, messages, sessions, clock, fail_at) ==
    LET Failed(m, s, c) ==
            [state |-> [st EXCEPT !.error = "failed to store conversation",
                                  !.response_message = WorkflowApology,
                                  !.ui_elements = <<>>],
             messages |-> m, sessions |-> s, clock |-> c]
        user_message ==
            MessageCreate(st.session_id, st.user_id, "user",
                          st.user_input, UserMetadata(st))
        m1 == CreateMessage(messages, user_message.value, clock)
        assistant_message ==
            MessageCreate(st.session_id, st.user_id, "assistant",
                          st.response_message, AssistantMetadata(st))
        m2 == CreateMessage(m1, assistant_message.value, clock + 1)
        s3 == CreateOrUpdateSession(sessions, st.session_id, st.user_id, clock + 2)
    IN  IF ~user_message.ok \/ fail_at = 1 THEN Failed(messages, sessions, clock)
        ELSE IF ~assistant_message.ok \/ fail_at = 2 THEN Failed(m1, sessions, clock + 1)
        ELSE IF fail_at = 3 THEN Failed(m2, sessions, clock + 2)
        ELSE [state |-> st, messages |-> m2, sessions |-> s3, clock |-> clock + 3]

\* store_conversation with each write in a try of its own: a write that
\* fails does not keep the later ones from being attempted.
StoreConversation_EachWriteAlone(st, messages, sessions, clock, fail_at) ==
    LET user_message ==
            MessageCreate(st.session_id, st.user_id, "user",
                          st.user_input, UserMetadata(st))
        m1 == IF user_message.ok /\ fail_at # 1
              THEN CreateMessage(messages, user_message.value, clock)
              ELSE messages
        assistant_message ==
            MessageCreate(st.session_id, st.user_id, "assistant",
                          st.response_message, AssistantMetadata(st))
        m2 == IF assistant_message.ok /\ fail_at # 2
              THEN CreateMessage(m1, assistant_message.value, clock + 1)
              ELSE m1
        s3 == IF fail_at # 3
              THEN CreateOrUpdateSession(sessions, st.session_id, st.user_id, clock + 2)
              ELSE sessions
    IN  [state |-> IF user_message.ok /\ assistant_message.ok /\ fail_at = 0
                   THEN st
                   ELSE [st EXCEPT !.error = "failed to store conversation"],
         messages |-> m2, sessions |-> s3, clock |-> clock + 3]

\* store_conversation writing the assistant row ahead of the user row
StoreConversation_AssistantFirst(st, messages, sessions, clock, fail_at) ==
    LET Failed(m, s, c) ==
            [state |-> [st EXCEPT !.error = "failed to store conversation"],
             messages |-> m, sessions |-> s, clock |-> c]
        assistant_message ==
            MessageCreate(st.session_id, st.user_id, "assistant",
                          st.response_message, AssistantMetadata(st))
        m1 == CreateMessage(messages, assistant_message.value, clock)
        user_message ==
            MessageCreate(st.session_id, st.user_id, "user",
                          st.user_input, UserMetadata(st))
        m2 == CreateMessage(m1, user_message.value, clock + 1)
        s3 == CreateOrUpdateSession(sessions, st.session_id, st.user_id, clock + 2)
    IN  IF ~assistant_message.ok \/ fail_at = 1 THEN Failed(messages, sessions, clock)
        ELSE IF ~user_message.ok \/ fail_at = 2 THEN Failed(m1, sessions, clock + 1)
        ELSE IF fail_at = 3 THEN Failed(m2, sessions, clock + 2)
        ELSE [state |-> st, messages |-> m2, sessions |-> s3, clock |-> clock + 3]

\* store_conversation.  Three writes, each committed on its own, in one
\* try; fail_at is the commit that fails (0: none).  What was committed
\* before an exception stays.
StoreConversation(st, messages, sessions, clock, fail_at) ==
    LET Failed(m, s, c) ==
            [state |-> [st EXCEPT !.error = "failed to store conversation"],
             messages |-> m, sessions |-> s, clock |-> c]
        user_message ==
            MessageCreate(st.session_id, st.user_id, "user",
                          st.user_input, UserMetadata(st))
        m1 == CreateMessage(messages, user_message.value, clock)
        assistant_message ==
            MessageCreate(st.session_id, st.user_id, "assistant",
                          st.response_message, AssistantMetadata(st))
        m2 == CreateMessage(m1, assistant_message.value, clock + 1)
        s3 == CreateOrUpdateSession(sessions, st.session_id, st.user_id, clock + 2)
    IN  IF ~user_message.ok \/ fail_at = 1 THEN Failed(messages, sessions, clock)
        ELSE IF ~assistant_message.ok \/ fail_at = 2 THEN Failed(m1, sessions, clock + 1)
        ELSE IF fail_at = 3 THEN Failed(m2, sessions, clock + 2)
        ELSE [state |-> st, messages |-> m2, sessions |-> s3, clock |-> clock + 3]

\* The store sessions a node leaves open.  get_db opens one as the first
\* statement of the try, and db.close() is the last statement of the try:
\* it runs when nothing before it raised.
PreprocessInputLeavesOpen(db) == IF db = "ok" THEN 0 ELSE 1

StoreConversationLeavesOpen(st, fail_at) ==
    LET user_message ==
            MessageCreate(st.session_id, st.user_id, "user",
                          st.user_input, UserMetadata(st))
        assistant_message ==
            MessageCreate(st.session_id, st.user_id, "assistant",
                          st.response_message, AssistantMetadata(st))
    IN  IF ~user_message.ok \/ ~assistant_message.ok \/ fail_at # 0 THEN 1 ELSE 0

\* AssistantResponse(...): message is a required str.
AssistantResponse(message, intent, entities, results, ui_elements, session_id) ==
    IF message = None THEN Raised
    ELSE Returned([kind |-> "AssistantResponse",
                   message |-> message,
                   intent |-> intent,
                   entities |-> entities,
                   results |-> results,
                   ui_elements |-> ui_elements,
                   session_id |-> session_id])

\* run_workflow without its except: what building the response raises
\* reaches the caller.
RunWorkflowResult_NoExcept(final_state, session_id) ==
    AssistantResponse(final_state.response_message,
                      final_state.intent,
                      Present(final_state.entities),
                      final_state.api_results,
                      Present(final_state.ui_elements),
                      session_id)

\* run_workflow whose except passes on the intent and the entities of
\* the final state.
RunWorkflowResult_ExceptKeepsIntent(final_state, session_id) ==
    LET response == AssistantResponse(final_state.response_message,
                                      final_state.intent,
                                      Present(final_state.entities),
                                      final_state.api_results,
                                      Present(final_state.ui_elements),
                                      session_id)
    IN  IF response.ok THEN response
        ELSE AssistantResponse(RunWorkflowApology, final_state.intent,
                               Present(final_state.entities), Absent, Absent,
                               session_id)

\* run_workflow after graph.ainvoke: the response from the final state,
\* or, when building it raises, the minimal response.
RunWorkflowResult(final_state, session_id) ==
    LET response == AssistantResponse(final_state.response_message,
                                      final_state.intent,
                                      Present(final_state.entities),
                                      final_state.api_results,
                                      Present(final_state.ui_elements),
                                      session_id)
    IN  IF response.ok THEN response
        ELSE AssistantResponse(RunWorkflowApology, None, Absent, Absent, Absent,
                               session_id)

(* ------------------------------------------------------------------ *)
(* api_routes.py                                                      *)
(* ------------------------------------------------------------------ *)

NoResponse == [kind |-> "none"]
HTTPException(status_code) == [kind |-> "HTTPException", status_code |-> status_code]

\* TravelRequest: message and session_id are required str fields; the
\* request is refused (422) before the handler runs when one is missing.
TravelRequest(message, session_id, user_id) ==
    IF message = None \/ session_id = None THEN Raised
    ELSE Returned([message |-> message, session_id |-> session_id, user_id |-> user_id])

\* chat_with_assistant: what the caller gets for the outcome of run_workflow
ChatWithAssistant(result) ==
    IF result.ok THEN result.value ELSE HTTPException(500)

(* ------------------------------------------------------------------ *)
(* What the collaborators and the caller may send                     *)
(* ------------------------------------------------------------------ *)

\* The session ids of the requests: none (the empty string), and one.
SessionIds == {"", "s1"}
UserIds == {None}
UserMessages == {"hi", " hi "}

Ok(content) == [status |-> "ok", content |-> content]
TransportError == [status |-> "error", content |-> <<>>]

\* A payload in a fenced block, with prose around it
Fenced(x) == <<Prose, FenceOpen, Json(x), Fence, Prose>>

ExtractPayload(intent, confidence, entities) ==
    JObj(("intent" :> JStr(intent)) @@ ("confidence" :> JNum(confidence))
         @@ ("entities" :> JObj(entities)))

FlightEntities ==
    ("origin" :> JStr("NYC")) @@ ("destination" :> JStr("LA"))
    @@ ("departure_date" :> JStr("2024-01-19"))

HotelEntities == ("location" :> JStr("LA")) @@ ("guests" :> JStr("2"))

BookingEntities == ("booking_id" :> JStr("b1"))

\* Replies with an intent and entities and no confidence
NoConfidenceReplies ==
    { Ok(<<Json(JObj(("intent" :> JStr(SEARCH_HOTEL))
                     @@ ("entities" :> JObj(HotelEntities))))>>) }

\* Replies the extractor can use
GoodExtractReplies ==
    NoConfidenceReplies \cup
    { Ok(Fenced(ExtractPayload(SEARCH_FLIGHT, 90, FlightEntities))),
      Ok(Fenced(ExtractPayload(SEARCH_FLIGHT, 90, ("passengers" :> JStr("many"))))),
      Ok(Fenced(ExtractPayload(SEARCH_HOTEL, 90, ("guests" :> JStr("12"))))),
      Ok(Fenced(ExtractPayload(SEARCH_HOTEL, 90, ("rooms" :> JNum(0))))),
      Ok(Fenced(ExtractPayload(BOOK_TRIP, 90, BookingEntities))),
      Ok(Fenced(JObj(("intent" :> JStr(GREETING)) @@ ("confidence" :> JNum(100))))),
      Ok(Fenced(ExtractPayload(GENERAL_INQUIRY, 90, EmptyDict))) }

\* Replies that fail the extraction: a transport error, empty content,
\* text that is not JSON, an empty fenced block, no intent, an intent
\* outside the enumeration.
FailedExtractReplies ==
    { TransportError,
      Ok(<<>>),
      Ok(<<Prose>>),
      Ok(<<Prose, Json(ExtractPayload(SEARCH_FLIGHT, 90, FlightEntities))>>),
      Ok(<<FenceOpen, Fence>>),
      Ok(Fenced(JObj(("confidence" :> JNum(90)) @@ ("entities" :> JObj(FlightEntities))))),
      Ok(Fenced(ExtractPayload("book_cruise", 90, EmptyDict))) }

\* Replies with a well-formed intent and a confidence that does not validate
MalformedConfidenceReplies ==
    { Ok(Fenced(ExtractPayload(SEARCH_HOTEL, 150, HotelEntities))),
      Ok(Fenced(JObj(("intent" :> JStr(GREETING)) @@ ("confidence" :> JStr("high"))))) }

ExtractReplies == GoodExtractReplies \cup FailedExtractReplies \cup MalformedConfidenceReplies

Button ==
    JObj(("type" :> JStr("button")) @@ ("text" :> JStr("Book"))
         @@ ("action" :> JStr("book")))

\* A ui_elements record without its action
ButtonWithoutAction == JObj(("type" :> JStr("button")) @@ ("text" :> JStr("Book")))

GoodGenerateReplies ==
    { Ok(Fenced(JObj(("message" :> JStr("Here you go"))
                     @@ ("ui_elements" :> JList(<<Button>>))))) }

\* Replies that parse and have no message
NoMessageReplies == { Ok(Fenced(JObj(("ui_elements" :> JList(<<>>))))) }

\* Replies that parse and whose message is null
NullMessageReplies == { Ok(Fenced(JObj(("message" :> JNull)))) }

\* Replies that fail the generation: a transport error, empty content,
\* text that is not JSON, a ui_elements record without a required field.
FailedGenerateReplies ==
    { TransportError,
      Ok(<<>>),
      Ok(<<Prose>>),
      Ok(Fenced(JObj(("message" :> JStr("Here you go"))
                     @@ ("ui_elements" :> JList(<<Button, ButtonWithoutAction>>))))) }

GenerateReplies ==
    GoodGenerateReplies \cup NoMessageReplies \cup NullMessageReplies
    \cup FailedGenerateReplies

Answers == {"ok", "error"}

(* ------------------------------------------------------------------ *)
(* State                                                              *)
(* ------------------------------------------------------------------ *)

VARIABLES
    pc,                     \* the graph node about to run, or idle/rejected/END/done
    state,                  \* the WorkflowState of the request in flight
    response,               \* what the caller of chat_with_assistant got
    conversation_messages,  \* table conversation_messages, in insertion order
    conversation_sessions,  \* table conversation_sessions, in insertion order
    now,                    \* the clock datetime.utcnow reads
    turns,                  \* requests run_workflow was called for
    faults,                 \* history: what failed in this turn
    trace,                  \* history: the nodes this turn ran, in order
    api_calls,              \* history: the calls this turn made to external_apis
    messages_before,        \* history: conversation_messages when the request came
    sessions_before,        \* history: conversation_sessions when the request came
    open_connections,       \* the store sessions this turn opened and has not closed
    inflight,               \* the requests of overlapping callers, each with its state
    token_cache,            \* tripxplo._token_cache
    tripxplo                \* history: the calls made to the tripxplo module

vars == <<pc, state, response, conversation_messages, conversation_sessions, now,
          turns, faults, trace, api_calls, messages_before, sessions_before,
          open_connections, inflight, token_cache, tripxplo>>

\* What a request handled on its own leaves alone.
elsewhere == <<inflight, token_cache, tripxplo>>

store == <<conversation_messages, conversation_sessions, now>>

\* What the collaborators did in this turn: whether the history read and
\* the search or booking call failed, the kind of reply each completion
\* call got ("none" before the call), and the commit that failed (0: none).
NoFaults ==
    [history |-> FALSE, extract |-> "none", collaborator |-> FALSE,
     generate |-> "none", store |-> 0]

ExtractReplyKind(reply) ==
    IF reply \in FailedExtractReplies THEN "failed"
    ELSE IF reply \in MalformedConfidenceReplies THEN "malformed_confidence"
    ELSE IF reply \in NoConfidenceReplies THEN "no_confidence"
    ELSE "good"

GenerateReplyKind(reply) ==
    IF reply \in FailedGenerateReplies THEN "failed"
    ELSE IF reply \in NoMessageReplies THEN "no_message"
    ELSE IF reply \in NullMessageReplies THEN "null_message"
    ELSE "good"

NoState == InitialState("", None, None)

\* The callers whose requests may overlap.
Callers == {"a", "b"}

\* A caller's request: the node it is at, its WorkflowState, and as
\* history the nodes it ran, what the collaborator of each node gave, the
\* time of its history read (0: none), the commit that failed in its store
\* (0: none), the ids of the rows it added and the time of its session
\* upsert (0: none).
NoRequest ==
    [pc |-> "idle", state |-> NoState, trace |-> <<>>, inputs |-> <<>>,
     read_at |-> 0, fail_at |-> 0, rows |-> <<>>, upsert_at |-> 0,
     response |-> NoResponse]

NoOverlap == [c \in Callers |-> NoRequest]

\* No call of the tripxplo module yet: the calls and the login requests
\* made, the token of the latest login that succeeded, and of the last
\* call: the function, the cache it found, how its login request and its
\* package request went ("none": not made), the token it sent, what it
\* returned.
NoCalls ==
    [calls |-> 0, logins |-> 0, issued |-> None,
     last |-> [op |-> "none", before |-> None, login |-> "none",
               request |-> "none", token |-> None, result |-> Raised]]

\* The store an earlier process left behind after one turn on session
\* "s1": the greeting "hi", answered and stored without a failure.
EarlierTurn ==
    LET greeting == Ok(Fenced(JObj(("intent" :> JStr(GREETING))
                                   @@ ("confidence" :> JNum(100)))))
        answered == Ok(Fenced(JObj(("message" :> JStr("Here you go"))
                                   @@ ("ui_elements" :> JList(<<Button>>)))))
        s0 == InitialState("hi", "s1", None)
        s1 == PreprocessInput(s0, <<>>, "ok")
        s2 == ExtractIntentAndEntities(s1, greeting)
        s3 == HandleGeneralInquiry(s2)
        s4 == GenerateResponse(s3, answered)
    IN  StoreConversation(s4, <<>>, <<>>, 1, 0)

\* DatabaseManager.__init__ runs create_all, which keeps the rows of a
\* database file that exists: the tables start empty, or as an earlier
\* process left them.
InitialStores ==
    { [messages |-> <<>>, sessions |-> <<>>, clock |-> 1],
      [messages |-> EarlierTurn.messages, sessions |-> EarlierTurn.sessions,
       clock |-> EarlierTurn.clock] }

Init ==
    /\ pc = "idle"
    /\ state = NoState
    /\ response = NoResponse
    /\ \E db \in InitialStores :
          /\ conversation_messages = db.messages
          /\ conversation_sessions = db.sessions
          /\ now = db.clock
    /\ turns = 0
    /\ faults = NoFaults
    /\ trace = <<>>
    /\ api_calls = <<>>
    /\ messages_before = conversation_messages
    /\ sessions_before = conversation_sessions
    /\ open_connections = 0
    /\ inflight = NoOverlap
    /\ token_cache = None
    /\ tripxplo = NoCalls

Waiting == pc \in {"idle", "rejected", "done"}

\* A node ran: the history of the turn, and the edge out of the node.
Ran(node, next) ==
    /\ trace' = Append(trace, node)
    /\ pc' = next

(* ------------------------------------------------------------------ *)
(* Actions                                                            *)
(* ------------------------------------------------------------------ *)

\* POST /chat with a body TravelRequest refuses: the handler is not called.
RejectRequest ==
    /\ Waiting
    /\ \E message \in UserMessages, session_id \in SessionIds \cup {None},
          user_id \in UserIds :
          /\ ~TravelRequest(message, session_id, user_id).ok
          /\ response' = HTTPException(422)
    /\ pc' = "rejected"
    /\ state' = NoState
    /\ faults' = NoFaults
    /\ trace' = <<>>
    /\ api_calls' = <<>>
    /\ messages_before' = conversation_messages
    /\ sessions_before' = conversation_sessions
    /\ open_connections' = 0
    /\ UNCHANGED <<store, turns,
                   elsewhere>>

\* POST /chat: chat_with_assistant calls run_workflow, which builds the
\* initial state and invokes the graph at its entry point.
RunWorkflow ==
    /\ Waiting
    /\ turns < MaxTurns
    /\ \E message \in UserMessages, session_id \in SessionIds \cup {None},
          user_id \in UserIds :
          LET request == TravelRequest(message, session_id, user_id)
          IN  /\ request.ok
              /\ state' = InitialState(request.value.message,
                                       request.value.session_id,
                                       request.value.user_id)
    /\ pc' = "preprocess_input"
    /\ response' = NoResponse
    /\ turns' = turns + 1
    /\ faults' = NoFaults
    /\ trace' = <<>>
    /\ api_calls' = <<>>
    /\ messages_before' = conversation_messages
    /\ sessions_before' = conversation_sessions
    /\ open_connections' = 0
    /\ UNCHANGED <<store,
                   elsewhere>>

PreprocessInputNode ==
    /\ pc = "preprocess_input"
    /\ \E db \in Answers :
          /\ state' = PreprocessInput(state, conversation_messages, db)
          /\ faults' = [faults EXCEPT !.history = (db = "error")]
          /\ open_connections' = open_connections + PreprocessInputLeavesOpen(db)
    /\ Ran("preprocess_input", Edges["preprocess_input"])
    /\ UNCHANGED <<response, store, turns, api_calls, messages_before, sessions_before,
                   elsewhere>>

ExtractIntentNode ==
    /\ pc = "extract_intent"
    /\ \E reply \in ExtractReplies :
          /\ state' = ExtractIntentAndEntities(state, reply)
          /\ faults' = [faults EXCEPT !.extract = ExtractReplyKind(reply)]
    /\ Ran("extract_intent", Edges["extract_intent"])
    /\ UNCHANGED <<response, store, turns, api_calls, messages_before, sessions_before,
                   open_connections, elsewhere>>

\* route_request returns the state as it is; the conditional edge then
\* picks the branch.
RouteRequestNode ==
    /\ pc = "route_request"
    /\ Ran("route_request", ConditionalEdges[RouteCondition(state.intent)])
    /\ UNCHANGED <<state, response, store, turns, faults, api_calls, messages_before, sessions_before,
                   open_connections, elsewhere>>

SearchFlightsNode ==
    /\ pc = "search_flights"
    /\ \E answer \in Answers :
          /\ state' = SearchFlights(state, answer)
          /\ faults' = [faults EXCEPT !.collaborator =
                            (FlightSearchRequest(state.entities).ok /\ answer = "error")]
    /\ Ran("search_flights", Edges["search_flights"])
    /\ api_calls' = api_calls \o SearchFlightsCalls(state)
    /\ UNCHANGED <<response, store, turns, messages_before, sessions_before,
                   open_connections, elsewhere>>

SearchHotelsNode ==
    /\ pc = "search_hotels"
    /\ \E answer \in Answers :
          /\ state' = SearchHotels(state, answer)
          /\ faults' = [faults EXCEPT !.collaborator =
                            (HotelSearchRequest(state.entities).ok /\ answer = "error")]
    /\ Ran("search_hotels", Edges["search_hotels"])
    /\ api_calls' = api_calls \o SearchHotelsCalls(state)
    /\ UNCHANGED <<response, store, turns, messages_before, sessions_before,
                   open_connections, elsewhere>>

CreateBookingNode ==
    /\ pc = "create_booking"
    /\ \E answer \in Answers :
          /\ state' = CreateBooking(state, answer)
          /\ faults' = [faults EXCEPT !.collaborator = (answer = "error")]
    /\ Ran("create_booking", Edges["create_booking"])
    /\ api_calls' = api_calls \o CreateBookingCalls(state)
    /\ UNCHANGED <<response, store, turns, messages_before, sessions_before,
                   open_connections, elsewhere>>

HandleGeneralNode ==
    /\ pc = "handle_general"
    /\ state' = HandleGeneralInquiry(state)
    /\ api_calls' = api_calls \o HandleGeneralCalls(state)
    /\ Ran("handle_general", Edges["handle_general"])
    /\ UNCHANGED <<response, store, turns, faults, messages_before, sessions_before,
                   open_connections, elsewhere>>

GenerateResponseNode ==
    /\ pc = "generate_response"
    /\ \E reply \in GenerateReplies :
          /\ state' = GenerateResponse(state, reply)
          /\ faults' = [faults EXCEPT !.generate = GenerateReplyKind(reply)]
    /\ Ran("generate_response", Edges["generate_response"])
    /\ UNCHANGED <<response, store, turns, api_calls, messages_before, sessions_before,
                   open_connections, elsewhere>>

StoreConversationNode ==
    /\ pc = "store_conversation"
    /\ \E fail_at \in 0..3 :
          LET done == StoreConversation(state, conversation_messages,
                                        conversation_sessions, now, fail_at)
          IN  /\ state' = done.state
              /\ conversation_messages' = done.messages
              /\ conversation_sessions' = done.sessions
              /\ now' = done.clock
              /\ faults' = [faults EXCEPT !.store = fail_at]
              /\ open_connections' =
                     open_connections + StoreConversationLeavesOpen(state, fail_at)
    /\ Ran("store_conversation", Edges["store_conversation"])
    /\ UNCHANGED <<response, turns, api_calls, messages_before, sessions_before,
                   elsewhere>>

\* graph.ainvoke returned: run_workflow builds the response and
\* chat_with_assistant hands it to the caller.  state stays what
\* final_state was.
RunWorkflowReturn ==
    /\ pc = "END"
    /\ response' = ChatWithAssistant(RunWorkflowResult(state, state.session_id))
    /\ pc' = "done"
    /\ UNCHANGED <<state, store, turns, faults, trace, api_calls, messages_before, sessions_before,
                   open_connections, elsewhere>>

Next ==
    \/ RejectRequest
    \/ RunWorkflow
    \/ PreprocessInputNode
    \/ ExtractIntentNode
    \/ RouteRequestNode
    \/ SearchFlightsNode
    \/ SearchHotelsNode
    \/ CreateBookingNode
    \/ HandleGeneralNode
    \/ GenerateResponseNode
    \/ StoreConversationNode
    \/ RunWorkflowReturn

Spec == Init /\ [][Next]_vars

TypeOK ==
    /\ pc \in {"idle", "rejected", "END", "done"} \cup DOMAIN Edges \cup {"route_request"}
    /\ turns \in 0..MaxTurns
    /\ state.intent \in IntentType \cup {None}

(* ------------------------------------------------------------------ *)
(* The history read, after many turns                                 *)
(* ------------------------------------------------------------------ *)

\* What the users of the earlier turns wrote, turn by turn.
EarlierInputs == <<"one", "two", "three", "four", "five", "six", "seven", "eight">>

\* What an earlier turn is: its session, and the commit of its store that
\* failed (0: none; 2: the assistant row, which leaves the user row).
EarlierTurnKinds ==
    { [session_id |-> "s1", fail_at |-> 0],
      [session_id |-> "s1", fail_at |-> 2],
      [session_id |-> "s2", fail_at |-> 0] }

\* The tables after the first k turns of plan, each run by run_workflow
\* on the tables the turns before it left: a greeting, answered.
RECURSIVE StoreAfter(_, _)
StoreAfter(plan, k) ==
    IF k = 0 THEN [messages |-> <<>>, sessions |-> <<>>, clock |-> 1]
    ELSE LET db == StoreAfter(plan, k - 1)
             greeting == Ok(Fenced(JObj(("intent" :> JStr(GREETING))
                                        @@ ("confidence" :> JNum(100)))))
             answered == Ok(Fenced(JObj(("message" :> JStr("Here you go"))
                                        @@ ("ui_elements" :> JList(<<Button>>)))))
             s0 == InitialState(EarlierInputs[((k - 1) % Len(EarlierInputs)) + 1],
                                plan[k].session_id, None)
             s1 == PreprocessInput(s0, db.messages, "ok")
             s2 == ExtractIntentAndEntities(s1, greeting)
             s3 == HandleGeneralInquiry(s2)
             s4 == GenerateResponse(s3, answered)
             stored == StoreConversation(s4, db.messages, db.sessions, db.clock,
                                         plan[k].fail_at)
         IN  [messages |-> stored.messages, sessions |-> stored.sessions,
              clock |-> stored.clock]

\* The tables are what up to MaxEarlierTurns earlier turns left.
HistoryInit ==
    /\ pc = "idle"
    /\ state = NoState
    /\ response = NoResponse
    /\ \E n \in 0..MaxEarlierTurns :
          \E plan \in [1..n -> EarlierTurnKinds] :
             LET db == StoreAfter(plan, n)
             IN  /\ conversation_messages = db.messages
                 /\ conversation_sessions = db.sessions
                 /\ now = db.clock
    /\ turns = 0
    /\ faults = NoFaults
    /\ trace = <<>>
    /\ api_calls = <<>>
    /\ messages_before = conversation_messages
    /\ sessions_before = conversation_sessions
    /\ open_connections = 0
    /\ inflight = NoOverlap
    /\ token_cache = None
    /\ tripxplo = NoCalls

\* A request comes and its first node reads the history.
HistoryNext ==
    \/ RunWorkflow
    \/ PreprocessInputNode

HistorySpec == HistoryInit /\ [][HistoryNext]_vars

(* ------------------------------------------------------------------ *)
(* Requests that overlap                                              *)
(* ------------------------------------------------------------------ *)

\* The nodes that await a collaborator.  A request is suspended there and
\* the event loop runs the nodes of other requests; a node without an
\* await runs from its first statement to its return in one piece.
Awaits ==
    {"extract_intent", "search_flights", "search_hotels", "create_booking",
     "generate_response"}

OverlapSessionIds == {"s1", "s2"}

\* What each caller writes.
OverlapMessages == ("a" :> "one") @@ ("b" :> "two")

OverlapExtractReplies ==
    { Ok(Fenced(JObj(("intent" :> JStr(GREETING)) @@ ("confidence" :> JNum(100))))),
      Ok(Fenced(ExtractPayload(SEARCH_FLIGHT, 90, FlightEntities))) }

OverlapGenerateReplies == GoodGenerateReplies \cup {TransportError}

\* The commit of a store that fails (0: none).
OverlapFailAt == 0..3

\* POST /chat of a caller while the request of the other may be running.
OverlapRunWorkflow(c) ==
    /\ inflight[c].pc = "idle"
    /\ \E session_id \in OverlapSessionIds :
          LET request == TravelRequest(OverlapMessages[c], session_id, None)
          IN  inflight' = [inflight EXCEPT
                  ![c].pc = "preprocess_input",
                  ![c].state = InitialState(request.value.message,
                                            request.value.session_id,
                                            request.value.user_id)]
    /\ UNCHANGED <<pc, state, response, store, turns, faults, trace, api_calls,
                   messages_before, sessions_before, open_connections,
                   token_cache, tripxplo>>

\* The node of the request of c ran with the input it got and left st.
OverlapRan(c, node, input, st, next) ==
    inflight' = [inflight EXCEPT ![c].state = st,
                                 ![c].trace = Append(@, node),
                                 ![c].inputs = Append(@, input),
                                 ![c].pc = next]

OverlapPreprocessInput(c) ==
    /\ inflight[c].pc = "preprocess_input"
    /\ \E db \in Answers :
          inflight' = [inflight EXCEPT
              ![c].state = PreprocessInput(inflight[c].state, conversation_messages, db),
              ![c].trace = Append(@, "preprocess_input"),
              ![c].inputs = Append(@, db),
              ![c].read_at = now,
              ![c].pc = Edges["preprocess_input"]]
    /\ UNCHANGED <<pc, state, response, store, turns, faults, trace, api_calls,
                   messages_before, sessions_before, open_connections,
                   token_cache, tripxplo>>

OverlapExtractIntent(c) ==
    /\ inflight[c].pc = "extract_intent"
    /\ \E reply \in OverlapExtractReplies :
          OverlapRan(c, "extract_intent", reply,
                     ExtractIntentAndEntities(inflight[c].state, reply),
                     Edges["extract_intent"])
    /\ UNCHANGED <<pc, state, response, store, turns, faults, trace, api_calls,
                   messages_before, sessions_before, open_connections,
                   token_cache, tripxplo>>

OverlapRouteRequest(c) ==
    /\ inflight[c].pc = "route_request"
    /\ OverlapRan(c, "route_request", "ok", inflight[c].state,
                  ConditionalEdges[RouteCondition(inflight[c].state.intent)])
    /\ UNCHANGED <<pc, state, response, store, turns, faults, trace, api_calls,
                   messages_before, sessions_before, open_connections,
                   token_cache, tripxplo>>

\* What the branch node leaves when its collaborator gives answer.
Dispatch(node, st, answer) ==
    CASE node = "search_flights" -> SearchFlights(st, answer)
      [] node = "search_hotels" -> SearchHotels(st, answer)
      [] node = "create_booking" -> CreateBooking(st, answer)
      [] OTHER -> HandleGeneralInquiry(st)

OverlapDispatch(c) ==
    /\ inflight[c].pc \in Range(ConditionalEdges)
    /\ \E answer \in IF inflight[c].pc \in Awaits THEN Answers ELSE {"ok"} :
          OverlapRan(c, inflight[c].pc, answer,
                     Dispatch(inflight[c].pc, inflight[c].state, answer),
                     Edges[inflight[c].pc])
    /\ UNCHANGED <<pc, state, response, store, turns, faults, trace, api_calls,
                   messages_before, sessions_before, open_connections,
                   token_cache, tripxplo>>

OverlapGenerateResponse(c) ==
    /\ inflight[c].pc = "generate_response"
    /\ \E reply \in OverlapGenerateReplies :
          OverlapRan(c, "generate_response", reply,
                     GenerateResponse(inflight[c].state, reply),
                     Edges["generate_response"])
    /\ UNCHANGED <<pc, state, response, store, turns, faults, trace, api_calls,
                   messages_before, sessions_before, open_connections,
                   token_cache, tripxplo>>

\* store_conversation has no await: its three writes are done before the
\* event loop runs anything else.
OverlapStoreConversation(c) ==
    /\ inflight[c].pc = "store_conversation"
    /\ \E fail_at \in OverlapFailAt :
          LET done == StoreConversation(inflight[c].state, conversation_messages,
                                        conversation_sessions, now, fail_at)
          IN  /\ conversation_messages' = done.messages
              /\ conversation_sessions' = done.sessions
              /\ now' = done.clock
              /\ inflight' = [inflight EXCEPT
                     ![c].state = done.state,
                     ![c].trace = Append(@, "store_conversation"),
                     ![c].pc = Edges["store_conversation"],
                     ![c].fail_at = fail_at,
                     ![c].rows = [i \in 1..(Len(done.messages) - Len(conversation_messages))
                                     |-> Len(conversation_messages) + i],
                     ![c].upsert_at =
                         IF done.sessions # conversation_sessions
                         THEN done.clock - 1 ELSE 0]
    /\ UNCHANGED <<pc, state, response, turns, faults, trace, api_calls,
                   messages_before, sessions_before, open_connections,
                   token_cache, tripxplo>>

OverlapRunWorkflowReturn(c) ==
    /\ inflight[c].pc = "END"
    /\ inflight' = [inflight EXCEPT
           ![c].pc = "done",
           ![c].response =
               ChatWithAssistant(RunWorkflowResult(inflight[c].state,
                                                   inflight[c].state.session_id))]
    /\ UNCHANGED <<pc, state, response, store, turns, faults, trace, api_calls,
                   messages_before, sessions_before, open_connections,
                   token_cache, tripxplo>>

OverlapNext ==
    \E c \in Callers :
        \/ OverlapRunWorkflow(c)
        \/ OverlapPreprocessInput(c)
        \/ OverlapExtractIntent(c)
        \/ OverlapRouteRequest(c)
        \/ OverlapDispatch(c)
        \/ OverlapGenerateResponse(c)
        \/ OverlapStoreConversation(c)
        \/ OverlapRunWorkflowReturn(c)

OverlapSpec == Init /\ [][OverlapNext]_vars

(* ------------------------------------------------------------------ *)
(* tripxplo.py: the travel-package client and its token cache         *)
(* ------------------------------------------------------------------ *)

MaxCalls == 3

\* A value Python takes for true: not None and not the empty string.
Truthy(x) == x \notin {None, ""}

\* x or y
PyOr(x, y) == IF Truthy(x) THEN x ELSE y

Tokens == {"t1", "t2"}

\* What the login request gets: a body with the token under accessToken
\* or under jwt, a body with an empty token or without one, or a failure
\* (a status raise_for_status raises for, a timeout).
LoginAnswers ==
    { [status |-> "ok", body |-> ("accessToken" :> token)] : token \in Tokens }
    \cup { [status |-> "ok", body |-> ("jwt" :> token)] : token \in Tokens }
    \cup { [status |-> "ok", body |-> ("accessToken" :> "") @@ ("jwt" :> "t2")],
           [status |-> "ok", body |-> ("accessToken" :> "")],
           [status |-> "ok", body |-> EmptyDict],
           [status |-> "error", body |-> EmptyDict] }

\* What the package list request gets: packages, none, a body without
\* result, a rejection of the token (401), or another failure.
PackageAnswers ==
    { [status |-> "ok", body |-> ("result" :> ("docs" :> <<"p1", "p2">>))],
      [status |-> "ok", body |-> ("result" :> ("docs" :> <<>>))],
      [status |-> "ok", body |-> EmptyDict],
      [status |-> "unauthorized", body |-> EmptyDict],
      [status |-> "error", body |-> EmptyDict] }

\* What the package details request gets.
DetailsAnswers ==
    { [status |-> "ok", body |-> ("result" :> ("hotel" :> <<"h1">>))],
      [status |-> "ok", body |-> ("result" :> ("name" :> "p1"))],
      [status |-> "unauthorized", body |-> EmptyDict],
      [status |-> "error", body |-> EmptyDict] }

\* How a request went, for the history of the calls.
RequestOutcome(answer) ==
    CASE answer.status = "ok" -> "ok"
      [] answer.status = "unauthorized" -> "rejected"
      [] OTHER -> "failed"

\* get_token logging in whatever the cache holds
GetToken_AlwaysLogin(cache, answer) ==
    LET token == PyOr(Get(answer.body, "accessToken", None),
                      Get(answer.body, "jwt", None))
    IN  IF answer.status = "ok" /\ Truthy(token)
        THEN [cache |-> token, result |-> Returned(token), login |-> "ok"]
        ELSE [cache |-> None, result |-> Raised, login |-> "failed"]

\* get_token: the cached token when there is one; else a login request,
\* whose token is cached and returned, or whose failure empties the cache
\* and is raised again.
GetToken(cache, answer) ==
    LET token == PyOr(Get(answer.body, "accessToken", None),
                      Get(answer.body, "jwt", None))
    IN  IF Truthy(cache)
        THEN [cache |-> cache, result |-> Returned(cache), login |-> "none"]
        ELSE IF answer.status = "ok" /\ Truthy(token)
        THEN [cache |-> token, result |-> Returned(token), login |-> "ok"]
        ELSE [cache |-> None, result |-> Raised, login |-> "failed"]

\* get_packages calling get_token inside its try
GetPackages_TokenInTry(cache, login_answer, answer) ==
    LET got == GetToken(cache, login_answer)
    IN  IF ~got.result.ok
        THEN [cache |-> got.cache, login |-> got.login, request |-> "none",
              token |-> None, result |-> Returned(<<>>)]
        ELSE [cache |-> got.cache, login |-> got.login,
              request |-> RequestOutcome(answer), token |-> got.result.value,
              result |-> IF answer.status = "ok"
                         THEN Returned(Get(Get(answer.body, "result", EmptyDict),
                                           "docs", <<>>))
                         ELSE Returned(<<>>)]

\* get_packages: get_token is called before the try; what the request or
\* the reading of its body raises is caught and [] returned.
GetPackages(cache, login_answer, answer) ==
    LET got == GetToken(cache, login_answer)
    IN  IF ~got.result.ok
        THEN [cache |-> got.cache, login |-> got.login, request |-> "none",
              token |-> None, result |-> Raised]
        ELSE [cache |-> got.cache, login |-> got.login,
              request |-> RequestOutcome(answer), token |-> got.result.value,
              result |-> IF answer.status = "ok"
                         THEN Returned(Get(Get(answer.body, "result", EmptyDict),
                                           "docs", <<>>))
                         ELSE Returned(<<>>)]

\* get_package_details: as get_packages, returning result or {}.
GetPackageDetails(cache, login_answer, answer) ==
    LET got == GetToken(cache, login_answer)
    IN  IF ~got.result.ok
        THEN [cache |-> got.cache, login |-> got.login, request |-> "none",
              token |-> None, result |-> Raised]
        ELSE [cache |-> got.cache, login |-> got.login,
              request |-> RequestOutcome(answer), token |-> got.result.value,
              result |-> IF answer.status = "ok"
                         THEN Returned(Get(answer.body, "result", EmptyDict))
                         ELSE Returned(EmptyDict)]

\* get_available_hotels: get_package_details is called inside the try.
GetAvailableHotels(cache, login_answer, answer) ==
    LET details == GetPackageDetails(cache, login_answer, answer)
    IN  [details EXCEPT
            !.result = IF details.result.ok
                       THEN Returned(Get(details.result.value, "hotel", <<>>))
                       ELSE Returned(<<>>)]

\* A function of the module was called and returned or raised: the cache
\* it left, and the history of the calls.
Called(op, done) ==
    /\ token_cache' = done.cache
    /\ tripxplo' =
          [calls |-> tripxplo.calls + 1,
           logins |-> tripxplo.logins + (IF done.login = "none" THEN 0 ELSE 1),
           issued |-> IF done.login = "ok" THEN done.cache ELSE tripxplo.issued,
           last |-> [op |-> op, before |-> token_cache, login |-> done.login,
                     request |-> done.request, token |-> done.token,
                     result |-> done.result]]
    /\ UNCHANGED <<pc, state, response, store, turns, faults, trace, api_calls,
                   messages_before, sessions_before, open_connections, inflight>>

CallGetToken ==
    /\ tripxplo.calls < MaxCalls
    /\ \E login_answer \in LoginAnswers :
          LET got == GetToken(token_cache, login_answer)
          IN  Called("get_token",
                     [cache |-> got.cache, login |-> got.login, request |-> "none",
                      token |-> None, result |-> got.result])

CallGetPackages ==
    /\ tripxplo.calls < MaxCalls
    /\ \E login_answer \in LoginAnswers, answer \in PackageAnswers :
          Called("get_packages", GetPackages(token_cache, login_answer, answer))

CallGetPackageDetails ==
    /\ tripxplo.calls < MaxCalls
    /\ \E login_answer \in LoginAnswers, answer \in DetailsAnswers :
          Called("get_package_details",
                 GetPackageDetails(token_cache, login_answer, answer))

CallGetAvailableHotels ==
    /\ tripxplo.calls < MaxCalls
    /\ \E login_answer \in LoginAnswers, answer \in DetailsAnswers :
          Called("get_available_hotels",
                 GetAvailableHotels(token_cache, login_answer, answer))

TripxploNext ==
    \/ CallGetToken
    \/ CallGetPackages
    \/ CallGetPackageDetails
    \/ CallGetAvailableHotels

TripxploSpec == Init /\ [][TripxploNext]_vars

(* ------------------------------------------------------------------ *)
(* Claims                                                             *)
(* ------------------------------------------------------------------ *)

\* The graph has run to its end: state is the final state.
GraphEnded == pc \in {"END", "done"}

\* The node has run in this turn.
HasRun(node) == \E i \in 1..Len(trace) : trace[i] = node

\* The rows this turn added to conversation_messages.
NewMessages ==
    SubSeq(conversation_messages, Len(messages_before) + 1, Len(conversation_messages))

TurnStep ==
    \/ PreprocessInputNode \/ ExtractIntentNode \/ RouteRequestNode
    \/ SearchFlightsNode \/ SearchHotelsNode \/ CreateBookingNode
    \/ HandleGeneralNode \/ GenerateResponseNode \/ StoreConversationNode
    \/ RunWorkflowReturn

\* C1: for a non-empty session_id, whatever the collaborators did, the
\* caller gets a response whose message is a non-empty string and whose
\* session_id is the one passed in.
C1_NonEmptyMessageSameSession ==
    (pc = "done" /\ state.session_id # "") =>
        /\ response.kind = "AssistantResponse"
        /\ response.message \notin {"", None}
        /\ response.session_id = state.session_id

\* C2: no exception escapes run_workflow: every request the handler ran
\* for ends with an AssistantResponse, whatever failed, and the only error
\* a caller gets is the refusal of the request at the entry (422).
C2_NoExceptionEscapes ==
    /\ pc = "done" => response.kind = "AssistantResponse"
    /\ response.kind = "HTTPException" =>
          /\ pc = "rejected"
          /\ response.status_code = 422
          /\ trace = <<>>

\* A turn in which the history read, the extraction, the generation and a
\* store write all failed, answered with an AssistantResponse.
C2_Witness ==
    /\ pc = "done"
    /\ faults.history
    /\ faults.extract = "failed"
    /\ faults.generate = "failed"
    /\ faults.store # 0
    /\ response.kind = "AssistantResponse"

\* C3: a request with an empty session_id is refused at the entry: no
\* node runs, no AssistantResponse is produced, and the tables are as they
\* were.
C3_EmptySessionRefused ==
    state.session_id = "" =>
        /\ trace = <<>>
        /\ response.kind # "AssistantResponse"
        /\ conversation_messages = messages_before
        /\ conversation_sessions = sessions_before

\* The branch node the spec gives for an intent value.
BranchFor(intent) ==
    CASE intent = "search_flight" -> "search_flights"
      [] intent = "search_hotel" -> "search_hotels"
      [] intent = "book_trip" -> "create_booking"
      [] OTHER -> "handle_general"

\* C4: routing is total: for each of the five intents, an absent intent
\* and an unrecognized value, route_condition returns a key of the
\* conditional edges, which leads to the flight, hotel or booking branch
\* for search_flight, search_hotel, book_trip and to the general branch
\* for everything else; and the node a turn runs after route_request is
\* that branch for the turn's intent.
C4_RoutingTotal ==
    /\ \A intent \in IntentType \cup {None, "book_cruise"} :
          /\ RouteCondition(intent) \in DOMAIN ConditionalEdges
          /\ ConditionalEdges[RouteCondition(intent)] = BranchFor(intent)
    /\ HasRun("route_request") =>
          (IF Len(trace) >= 4 THEN trace[4] ELSE pc) = BranchFor(state.intent)

\* A greeting has been routed to the general branch.
C4_Witness ==
    /\ Len(trace) >= 4
    /\ state.intent = "greeting"
    /\ trace[4] = "handle_general"

\* C5: when the completion call of the extraction fails (transport error,
\* unparsable payload, no intent, an intent outside the enumeration), the
\* turn's intent is general_inquiry, its confidence 0.5 and its entities
\* empty; the turn goes on (a node is always enabled until the response is
\* returned) and it ends having run the general branch, the generation
\* and the store.
C5_ExtractionFallback ==
    faults.extract = "failed" =>
        /\ state.intent = "general_inquiry"
        /\ state.confidence = 50
        /\ state.entities = <<>>
        /\ pc # "done" => ENABLED TurnStep
        /\ GraphEnded =>
              trace = <<"preprocess_input", "extract_intent", "route_request",
                        "handle_general", "generate_response", "store_conversation">>

\* A turn whose extraction failed has returned its response.
C5_Witness ==
    /\ pc = "done"
    /\ faults.extract = "failed"
    /\ state.intent = "general_inquiry"
    /\ response.kind = "AssistantResponse"

\* C6: when the completion call of the generation fails (transport error,
\* unparsable payload, a ui_elements record without a required field), the
\* turn's message is the fixed apology and its ui_elements are empty, and
\* so are those of the response.
C6_GenerationFallback ==
    faults.generate = "failed" =>
        /\ state.response_message =
              "I apologize, but I'm having trouble processing your request right now. Please try again."
        /\ state.ui_elements = <<>>
        /\ pc = "done" =>
              /\ response.kind = "AssistantResponse"
              /\ response.message = state.response_message
              /\ response.ui_elements = Present(<<>>)

\* A turn whose generation failed has returned the apology.
C6_Witness ==
    /\ pc = "done"
    /\ faults.generate = "failed"
    /\ response.kind = "AssistantResponse"
    /\ response.message = GenerateApology

\* C7: when the search or booking collaborator of the branch fails, the
\* results are empty and the error is recorded, and once the generation
\* has run the turn's message is a non-empty string.
C7_CollaboratorFailureStillAnswered ==
    faults.collaborator =>
        /\ state.api_results = Present(<<>>)
        /\ state.error # None
        /\ HasRun("generate_response") => state.response_message \notin {"", None}

\* C8: a turn whose graph has ended added its user row and its assistant
\* row and upserted the session, or changed nothing in the tables.
C8_TurnStoredWholeOrNotAtAll ==
    GraphEnded =>
        \/ /\ Len(NewMessages) = 2
           /\ NewMessages[1].message_type = "user"
           /\ NewMessages[2].message_type = "assistant"
           /\ \A i \in 1..2 : NewMessages[i].session_id = state.session_id
           /\ conversation_sessions # sessions_before
        \/ /\ conversation_messages = messages_before
           /\ conversation_sessions = sessions_before

\* C9: the rows conversation_messages held when the request came are its
\* first rows ever after, each as it was.
C9_LogAppendOnly ==
    /\ Len(conversation_messages) >= Len(messages_before)
    /\ SubSeq(conversation_messages, 1, Len(messages_before)) = messages_before

\* A turn that repeats the input of an earlier turn of its session has
\* been stored behind the earlier rows.
C9_Witness ==
    /\ pc = "done"
    /\ Len(NewMessages) = 2
    /\ \E i \in 1..Len(messages_before) :
          /\ messages_before[i].session_id = NewMessages[1].session_id
          /\ messages_before[i].message_type = "user"
          /\ messages_before[i].content = NewMessages[1].content

\* C10: when a commit of a message row fails in a turn whose two
\* completion calls succeeded, a history read of the session returns no
\* row of that turn.
C10_FailedAppendLeavesNoRow ==
    (GraphEnded /\ faults.store \in {1, 2}
       /\ faults.extract = "good" /\ faults.generate = "good") =>
        \A row \in Range(GetConversationHistory(conversation_messages,
                                                state.session_id, 0)) :
            row.id <= Len(messages_before)

\* What the caller gets when the graph ends in the state st.
ResponseFor(st) == ChatWithAssistant(RunWorkflowResult(st, st.session_id))

\* C11: a failure of a store write does not change what the caller gets:
\* when store_conversation is about to run, the response built from the
\* state it returns is the same whichever of its commits fails or none
\* does, and the response returned is the one the state before the store
\* gives (the store changes nothing of the state but its error).
C11_StoreFailureInvisible ==
    /\ pc = "store_conversation" =>
          \A fail_at \in 1..3 :
              ResponseFor(StoreConversation(state, conversation_messages,
                                            conversation_sessions, now, fail_at).state)
              = ResponseFor(StoreConversation(state, conversation_messages,
                                              conversation_sessions, now, 0).state)
    /\ pc = "done" =>
          response = ResponseFor([state EXCEPT !.error = None])

\* A turn whose generation succeeded and whose store failed has returned
\* the generated message.
C11_Witness ==
    /\ pc = "done"
    /\ faults.store # 0
    /\ faults.generate = "good"
    /\ state.error = "failed to store conversation"
    /\ response.kind = "AssistantResponse"
    /\ response.message = "Here you go"
    /\ response.ui_elements = Present(state.ui_elements)

\* The stages of a turn in the order the spec gives, with the branch.
StageOrder(branch) ==
    <<"preprocess_input", "extract_intent", "route_request", branch,
      "generate_response", "store_conversation">>

\* C12: the nodes a turn has run are the first stages of the fixed order,
\* each once, with the one branch the routing selects for the turn's
\* intent; the node about to run is the next stage; a turn has run all
\* six stages when its response is returned, whatever failed; and the
\* tables are as the request found them until generate_response has run.
C12_StagesInOrder ==
    LET order == StageOrder(BranchFor(state.intent))
    IN  /\ Len(trace) <= Len(order)
        /\ trace = SubSeq(order, 1, Len(trace))
        /\ pc \notin {"idle", "rejected", "done"} =>
              pc = (IF Len(trace) = Len(order) THEN "END" ELSE order[Len(trace) + 1])
        /\ pc = "done" => trace = order
        /\ ~HasRun("generate_response") =>
              /\ conversation_messages = messages_before
              /\ conversation_sessions = sessions_before

\* A turn on the hotel branch in which the history read, the hotel search
\* and a store write failed has run its six stages and returned.
C12_Witness ==
    /\ pc = "done"
    /\ trace = StageOrder("search_hotels")
    /\ faults.history
    /\ faults.collaborator
    /\ faults.store # 0
    /\ response.kind = "AssistantResponse"

\* The value the spec gives a text field of a request: the entity, or
\* the default when the entity map has none.
TextOr(entities, key, default) ==
    IF key \in DOMAIN entities THEN entities[key].v ELSE default

\* The value the spec gives a count field: the entity as an integer, or
\* 1 when the entity map has none.
CountOr(entities, key) ==
    IF key \notin DOMAIN entities THEN 1
    ELSE IF entities[key].j = "num" THEN entities[key].v
    ELSE DigitStrings[entities[key].v]

\* The entity is absent, or an integer (or a string of digits) in lo..hi.
CountValid(entities, key, lo, hi) ==
    key \in DOMAIN entities =>
        /\ \/ entities[key].j = "num"
           \/ entities[key].j = "str" /\ entities[key].v \in DOMAIN DigitStrings
        /\ CountOr(entities, key) >= lo
        /\ CountOr(entities, key) <= hi

TextValid(entities, keys) ==
    \A key \in keys : key \in DOMAIN entities => entities[key].j = "str"

\* The flight branch made one call, with the request of the spec.
FlightCalledOnce ==
    /\ Len(api_calls) = 1
    /\ api_calls[1].api = "search_flights"
    /\ api_calls[1].request.origin = TextOr(state.entities, "origin", "")
    /\ api_calls[1].request.destination = TextOr(state.entities, "destination", "")
    /\ api_calls[1].request.departure_date = TextOr(state.entities, "departure_date", "")
    /\ api_calls[1].request.class_type = TextOr(state.entities, "class_type", "economy")
    /\ api_calls[1].request.passengers = CountOr(state.entities, "passengers")

\* The hotel branch made one call, with the request of the spec.
HotelCalledOnce ==
    /\ Len(api_calls) = 1
    /\ api_calls[1].api = "search_hotels"
    /\ api_calls[1].request.location = TextOr(state.entities, "location", "")
    /\ api_calls[1].request.check_in = TextOr(state.entities, "check_in", "")
    /\ api_calls[1].request.check_out = TextOr(state.entities, "check_out", "")
    /\ api_calls[1].request.guests = CountOr(state.entities, "guests")
    /\ api_calls[1].request.rooms = CountOr(state.entities, "rooms")

\* The branch made no call and recorded why.
NotCalled ==
    /\ api_calls = <<>>
    /\ state.api_results = Present(<<>>)
    /\ state.error # None

\* C13 as stated: whenever the flight branch has run, it has called the
\* flight search exactly once, with origin, destination and
\* departure_date from the entities ("" when absent), passengers 1 and
\* class_type "economy" when absent; and so has the hotel branch, with
\* guests 1 and rooms 1 when absent.
C13_BranchCallsOnce ==
    /\ HasRun("search_flights") => FlightCalledOnce
    /\ HasRun("search_hotels") => HotelCalledOnce

\* C13 amended: the branch calls its search exactly once with that
\* request when the values the entity map holds validate (text fields are
\* text, passengers an integer in 1..9, guests in 1..10, rooms in 1..5);
\* when they do not, no search is called, the results are empty and the
\* error is recorded.
C13_ValidRequestCalledOnce ==
    /\ HasRun("search_flights") =>
          IF /\ TextValid(state.entities,
                          {"origin", "destination", "departure_date", "class_type"})
             /\ CountValid(state.entities, "passengers", PassengersMin, PassengersMax)
          THEN FlightCalledOnce
          ELSE NotCalled
    /\ HasRun("search_hotels") =>
          IF /\ TextValid(state.entities, {"location", "check_in", "check_out"})
             /\ CountValid(state.entities, "guests", GuestsMin, GuestsMax)
             /\ CountValid(state.entities, "rooms", RoomsMin, RoomsMax)
          THEN HotelCalledOnce
          ELSE NotCalled

\* The flight search was called once for NYC to LA on 2024-01-19 with one
\* passenger in economy, neither named by the entities.
C13_Witness ==
    /\ HasRun("search_flights")
    /\ DOMAIN state.entities = {"origin", "destination", "departure_date"}
    /\ api_calls = <<[api |-> "search_flights",
                      request |-> [origin |-> "NYC", destination |-> "LA",
                                   departure_date |-> "2024-01-19",
                                   return_date |-> JNull,
                                   passengers |-> 1, class_type |-> "economy"]]>>

\* C14: a turn that ran the general branch has called no search and no
\* booking, and its results are the empty sequence; and for each intent
\* that routes to the general branch and each entity map, the branch
\* leaves the results empty.
C14_GeneralBranchCallsNothing ==
    /\ HasRun("handle_general") =>
          /\ api_calls = <<>>
          /\ state.api_results = Present(<<>>)
    /\ \A intent \in {GENERAL_INQUIRY, GREETING, None, "book_cruise"},
          entities \in {EmptyDict, FlightEntities, HotelEntities, BookingEntities} :
          LET st == [state EXCEPT !.intent = intent, !.entities = entities]
          IN  /\ ConditionalEdges[RouteCondition(intent)] = "handle_general"
              /\ HandleGeneralInquiry(st).api_results = Present(<<>>)
              /\ HandleGeneralCalls(st) = <<>>

\* A greeting went through the general branch and was answered.
C14_Witness ==
    /\ pc = "done"
    /\ HasRun("handle_general")
    /\ state.intent = GREETING
    /\ api_calls = <<>>
    /\ response.kind = "AssistantResponse"
    /\ response.results = Present(<<>>)

\* The rows of the session in the table, in the order they were written.
SessionLog(session_id) ==
    SelectSeq(conversation_messages, LAMBDA m : m.session_id = session_id)

\* C15: the history of a turn has at most 10 entries; when the read
\* succeeded they are the last 10 rows written for the turn's session (all
\* of them when there are fewer), oldest first, whatever turns ran before
\* on whatever sessions.
C15_HistoryLastTenOldestFirst ==
    /\ Len(state.conversation_history) <= 10
    /\ (HasRun("preprocess_input") /\ ~faults.history) =>
          LET mine == SessionLog(state.session_id)
              n == Len(mine)
              k == IF n > 10 THEN 10 ELSE n
          IN  /\ Len(state.conversation_history) = k
              /\ \A i \in 1..k :
                    state.conversation_history[i] =
                        <<mine[n - k + i].message_type, mine[n - k + i].content>>

\* A turn on a session with more than 10 rows, in a table that holds
\* rows of another session too, has read a history of 10.
C15_Witness ==
    /\ pc = "extract_intent"
    /\ ~faults.history
    /\ Len(SessionLog(state.session_id)) > 10
    /\ Len(conversation_messages) > Len(SessionLog(state.session_id))
    /\ Len(state.conversation_history) = 10
    /\ state.conversation_history[10] = <<"assistant", "Here you go">>

\* C16: when run_workflow's own try raises (the response cannot be built
\* from the final state: its message is None), the response returned is
\* the minimal one, the fixed apology and the session_id with intent,
\* entities, results and ui_elements absent; in every other case the
\* response carries the message, intent, entities, results and
\* ui_elements of the final state.
C16_MinimalResponseOnlyOnThrow ==
    pc = "done" =>
        /\ response.kind = "AssistantResponse"
        /\ response.session_id = state.session_id
        /\ IF state.response_message = None
           THEN /\ response.message =
                      "I apologize, but I encountered an error processing your request. Please try again."
                /\ response.intent = None
                /\ response.entities = Absent
                /\ response.results = Absent
                /\ response.ui_elements = Absent
           ELSE /\ response.message = state.response_message
                /\ response.intent = state.intent
                /\ response.entities = Present(state.entities)
                /\ response.results = state.api_results
                /\ response.ui_elements = Present(state.ui_elements)

\* A hotel search that found hotels ended in the minimal response.
C16_Witness ==
    /\ pc = "done"
    /\ state.intent = SEARCH_HOTEL
    /\ state.api_results.present
    /\ state.api_results.value # <<>>
    /\ state.response_message = None
    /\ response.message = RunWorkflowApology
    /\ response.results = Absent

\* C17: when the payload of the generation parses and has no message, the
\* turn's message is the fixed apology of the generator and its
\* ui_elements are empty, as after a transport or parse failure.
C17_NoMessageFallsBack ==
    faults.generate = "no_message" =>
        /\ state.response_message =
              "I apologize, but I'm having trouble processing your request right now. Please try again."
        /\ state.ui_elements = <<>>

\* C18: a turn in which a completion call failed, of the extraction or of
\* the generation, has a reason in its error field when its response is
\* returned.
C18_CompletionFailureRecorded ==
    (pc = "done" /\ (faults.extract = "failed" \/ faults.generate = "failed")) =>
        state.error # None

\* C19 as stated: when the payload of the extraction has a valid intent
\* and entities and its confidence is missing or is not a number in
\* [0,1], the turn has the intent and the entities of the payload and
\* confidence 0.0.
C19_BadConfidenceIsZero ==
    faults.extract \in {"no_confidence", "malformed_confidence"} =>
        /\ state.confidence = 0
        /\ state.intent \in {SEARCH_HOTEL, GREETING}
        /\ state.intent = SEARCH_HOTEL => state.entities = HotelEntities

\* C19 amended: when the confidence is missing, the turn has the intent
\* and the entities of the payload and confidence 0.0; when it is present
\* and not a number in [0,1], the turn has the fallback: general_inquiry,
\* confidence 0.5, no entities.
C19_MissingZeroMalformedFallback ==
    /\ faults.extract = "no_confidence" =>
          /\ state.intent = SEARCH_HOTEL
          /\ state.entities = HotelEntities
          /\ state.confidence = 0
    /\ faults.extract = "malformed_confidence" =>
          /\ state.intent = GENERAL_INQUIRY
          /\ state.entities = EmptyDict
          /\ state.confidence = 50

\* A hotel search extracted without a confidence has been answered.
C19_Witness ==
    /\ pc = "done"
    /\ faults.extract = "no_confidence"
    /\ state.intent = SEARCH_HOTEL
    /\ state.confidence = 0
    /\ response.intent = SEARCH_HOTEL

\* C20: when the history read of preprocess_input fails, the turn's
\* history is empty and its input is the trimmed input; the turn goes on
\* through every later stage to its response; and when nothing else
\* fails, the intent is the extracted one (not the fallback), the only
\* error there can be is that of a search request that did not build,
\* the response is the generated message and the turn is stored.
C20_HistoryFailureAbsorbed ==
    faults.history =>
        /\ state.conversation_history = <<>>
        /\ state.user_input = "hi"
        /\ pc # "done" => ENABLED TurnStep
        /\ pc = "done" =>
              /\ Len(trace) = 6
              /\ response.kind = "AssistantResponse"
        /\ (pc = "done" /\ faults.extract = "good" /\ faults.generate = "good"
              /\ ~faults.collaborator /\ faults.store = 0) =>
              /\ state.error \in {None, "invalid flight request", "invalid hotel request"}
              /\ state.confidence # 50
              /\ response.message = "Here you go"
              /\ response.intent = state.intent
              /\ Len(NewMessages) = 2

\* A turn on a session that has rows failed to read its history and was
\* answered as extracted and generated.
C20_Witness ==
    /\ pc = "done"
    /\ faults.history
    /\ faults.extract = "good"
    /\ faults.generate = "good"
    /\ \E i \in 1..Len(messages_before) :
          messages_before[i].session_id = state.session_id
    /\ state.conversation_history = <<>>
    /\ state.intent = SEARCH_FLIGHT
    /\ state.error = None
    /\ response.message = "Here you go"

\* The store stage of this turn ran and none of its writes failed.
StoreSucceeded ==
    /\ HasRun("store_conversation")
    /\ state.error # "failed to store conversation"

\* The rows of a sessions table with the session_id.
SessionRows(sessions, session_id) ==
    SelectSeq(sessions, LAMBDA r : r.session_id = session_id)

\* C21: there is at most one session row for each session_id; a row that
\* was there when the request came keeps its created_at, its last_activity
\* does not go back, and no row's last_activity is earlier than its
\* created_at; and a turn whose store succeeded has set the last_activity
\* of its session's row to the time it read in the upsert.
C21_OneSessionRecord ==
    /\ \A i, j \in 1..Len(conversation_sessions) :
          conversation_sessions[i].session_id = conversation_sessions[j].session_id
              => i = j
    /\ \A i \in 1..Len(conversation_sessions) :
          conversation_sessions[i].last_activity >= conversation_sessions[i].created_at
    /\ \A i \in 1..Len(sessions_before) :
          LET rows == SessionRows(conversation_sessions, sessions_before[i].session_id)
          IN  /\ Len(rows) = 1
              /\ rows[1].created_at = sessions_before[i].created_at
              /\ rows[1].last_activity >= sessions_before[i].last_activity
    /\ StoreSucceeded =>
          LET rows == SessionRows(conversation_sessions, state.session_id)
          IN  /\ Len(rows) = 1
              /\ rows[1].last_activity = now - 1
              /\ \A i \in 1..Len(conversation_messages) :
                    conversation_messages[i].timestamp < rows[1].last_activity

\* A turn on a session that had a row has been stored: the row's
\* last_activity has moved on and its created_at has not.
C21_Witness ==
    /\ pc = "done"
    /\ StoreSucceeded
    /\ SessionRows(sessions_before, state.session_id) # <<>>
    /\ LET row == SessionRows(conversation_sessions, state.session_id)[1]
           old == SessionRows(sessions_before, state.session_id)[1]
       IN  /\ row.created_at = old.created_at
           /\ row.last_activity > old.last_activity
           /\ row.last_activity > row.created_at

\* The store of the caller's request ran and none of its writes failed.
Stored(c) ==
    /\ \E i \in 1..Len(inflight[c].trace) : inflight[c].trace[i] = "store_conversation"
    /\ inflight[c].state.error # "failed to store conversation"

\* The requests of the two callers overlapped: each read its history
\* before the other stored, so each was running while the other was.
Overlapped ==
    \A c \in Callers :
        /\ Len(inflight[c].inputs) > 0
        /\ inflight[c].inputs[1] = "ok"
        /\ inflight[c].state.conversation_history =
               HistoryLines(GetConversationHistory(messages_before,
                                                   inflight[c].state.session_id,
                                                   HistoryLimit))

Later(x, y) == IF x >= y THEN x ELSE y

\* C22: when the requests of two callers for one session have both
\* stored without a failed write, both upserts were done, there is one
\* session row for the session and its last_activity is the time of the
\* later upsert, whether or not the session had a row before; while only
\* one has stored, the one row carries the time of its upsert.
C22_RacingUpsertsKeepOneRow ==
    \A c, d \in Callers :
        (c # d /\ Stored(c)
           /\ inflight[c].state.session_id = inflight[d].state.session_id) =>
            LET rows == SessionRows(conversation_sessions, inflight[c].state.session_id)
            IN  /\ inflight[c].upsert_at # 0
                /\ Len(rows) = 1
                /\ rows[1].last_activity =
                      Later(inflight[c].upsert_at, inflight[d].upsert_at)
                /\ Stored(d) => inflight[d].upsert_at # 0

\* Two requests for a session without a row overlapped and both stored:
\* the first upsert added the row, the second moved its last_activity.
C22_Witness ==
    /\ sessions_before = <<>>
    /\ Overlapped
    /\ \A c \in Callers : Stored(c) /\ inflight[c].pc = "done"
    /\ inflight["a"].state.session_id = inflight["b"].state.session_id
    /\ Len(conversation_sessions) = 1
    /\ conversation_sessions[1].created_at < conversation_sessions[1].last_activity
    /\ conversation_sessions[1].last_activity = inflight["a"].upsert_at
    /\ inflight["b"].upsert_at = conversation_sessions[1].created_at

\* The state the request of c would be in, had it run the nodes it ran,
\* with what the collaborators gave it, on the tables as they were before
\* either request came.
AloneState(c) ==
    LET r == inflight[c]
        n == Len(r.inputs)
        s0 == InitialState(OverlapMessages[c], r.state.session_id, None)
        s1 == IF n >= 1 THEN PreprocessInput(s0, messages_before, r.inputs[1]) ELSE s0
        s2 == IF n >= 2 THEN ExtractIntentAndEntities(s1, r.inputs[2]) ELSE s1
        s4 == IF n >= 4 THEN Dispatch(r.trace[4], s2, r.inputs[4]) ELSE s2
        s5 == IF n >= 5 THEN GenerateResponse(s4, r.inputs[5]) ELSE s4
    IN  IF Len(r.trace) >= 6
        THEN StoreConversation(s5, messages_before, sessions_before, 1, r.fail_at).state
        ELSE s5

\* A row without what the table gives it: its id and its timestamp.
RowContent(row) ==
    [session_id |-> row.session_id, user_id |-> row.user_id,
     message_type |-> row.message_type, content |-> row.content,
     extra_metadata |-> row.extra_metadata]

\* The rows the request of c would have added, had it run alone.
AloneRows(c) ==
    LET r == inflight[c]
        s0 == InitialState(OverlapMessages[c], r.state.session_id, None)
        s1 == PreprocessInput(s0, messages_before, r.inputs[1])
        s2 == ExtractIntentAndEntities(s1, r.inputs[2])
        s4 == Dispatch(r.trace[4], s2, r.inputs[4])
        s5 == GenerateResponse(s4, r.inputs[5])
        done == StoreConversation(s5, messages_before, sessions_before, 1, r.fail_at)
    IN  SubSeq(done.messages, Len(messages_before) + 1, Len(done.messages))

\* C23: a request on one session, overlapping a request on another
\* session or not, adds rows only under its session_id and upserts only
\* its session's row; what is stored under other sessions is what their
\* own requests and the requests before left; and its state (history,
\* intent, results, message) and the rows it adds are those it would have
\* had running alone on the tables as they were before.
C23_SessionsIndependent ==
    /\ \A c \in Callers :
          /\ \A i \in 1..Len(inflight[c].rows) :
                conversation_messages[inflight[c].rows[i]].session_id
                    = inflight[c].state.session_id
          /\ \A d \in Callers :
                (inflight[d].pc # "idle" /\ inflight[c].pc # "idle"
                   /\ inflight[d].state.session_id # inflight[c].state.session_id) =>
                    /\ inflight[c].state = AloneState(c)
                    /\ inflight[c].pc = "done" =>
                          /\ inflight[c].response = ResponseFor(AloneState(c))
                          /\ Len(inflight[c].rows) = Len(AloneRows(c))
                          /\ \A i \in 1..Len(inflight[c].rows) :
                                RowContent(conversation_messages[inflight[c].rows[i]])
                                    = RowContent(AloneRows(c)[i])
    /\ \A session_id \in OverlapSessionIds :
          LET mine == {c \in Callers : inflight[c].pc # "idle"
                                       /\ inflight[c].state.session_id = session_id}
              written == UNION {Range(inflight[c].rows) : c \in mine}
              upserts == {inflight[c].upsert_at : c \in mine} \ {0}
          IN  /\ \A i \in 1..Len(conversation_messages) :
                    (conversation_messages[i].session_id = session_id
                       /\ i > Len(messages_before)) => i \in written
              /\ upserts = {} =>
                    SessionRows(conversation_sessions, session_id)
                        = SessionRows(sessions_before, session_id)
              /\ upserts # {} =>
                    SessionRows(conversation_sessions, session_id)[1].last_activity
                        \in upserts

\* A request on s2 read its history after a request on s1 had stored its
\* rows, and was stored as well: its history has none of the rows of s1.
C23_Witness ==
    /\ \A c \in Callers : inflight[c].pc = "done" /\ Stored(c)
    /\ inflight["a"].state.session_id = "s1"
    /\ inflight["b"].state.session_id = "s2"
    /\ inflight["b"].inputs[1] = "ok"
    /\ inflight["b"].read_at > conversation_messages[inflight["a"].rows[2]].timestamp
    /\ inflight["b"].state.conversation_history = <<>>
    /\ Len(inflight["b"].rows) = 2
    /\ conversation_messages[inflight["b"].rows[1]].content = "two"

\* The entity map has the count and it is not an integer in lo..hi.
Unusable(entities, key, lo, hi) ==
    /\ key \in DOMAIN entities
    /\ ~CountValid(entities, key, lo, hi)

\* The node the turn ran after its branch (the fourth node), or is about
\* to run.
AfterBranch == IF Len(trace) >= 5 THEN trace[5] ELSE pc

\* C24: when passengers (flight branch) or guests or rooms (hotel branch)
\* is not convertible to an integer or is outside 1..9, 1..10, 1..5, the
\* branch has called no collaborator, the results are the empty sequence,
\* an error is recorded on the state, and the node after the branch is
\* generate_response.
C24_UnusableEntitySkipsSearch ==
    /\ (HasRun("search_flights")
          /\ Unusable(state.entities, "passengers", PassengersMin, PassengersMax)) =>
            /\ NotCalled
            /\ AfterBranch = "generate_response"
    /\ (HasRun("search_hotels")
          /\ \/ Unusable(state.entities, "guests", GuestsMin, GuestsMax)
             \/ Unusable(state.entities, "rooms", RoomsMin, RoomsMax)) =>
            /\ NotCalled
            /\ AfterBranch = "generate_response"

\* A hotel turn with 12 guests has generated its response after a branch
\* that called nothing and recorded the invalid request.
C24_Witness ==
    /\ HasRun("search_hotels")
    /\ HasRun("generate_response")
    /\ Get(state.entities, "guests", JNull) = JStr("12")
    /\ api_calls = <<>>
    /\ state.api_results = Present(<<>>)
    /\ state.error = "invalid hotel request"
    /\ faults.generate = "good"

\* C25: after a package request sent with the cached token was rejected
\* for authentication, the cache does not hold the rejected token any
\* more, so that the next get_token logs in.
C25_RejectedTokenInvalidated ==
    (tripxplo.last.request = "rejected"
       /\ tripxplo.last.before = tripxplo.last.token) =>
        /\ token_cache # tripxplo.last.token
        /\ \A login_answer \in LoginAnswers :
              GetToken(token_cache, login_answer).login # "none"

\* C26: the cache is empty or holds the non-empty token of the latest
\* login that succeeded; a call that found a token in the cache made no
\* login request and left the cache as it was, and get_token returned that
\* token; a call that found the cache empty made a login request; and
\* after a login that failed the cache is empty and the failure was raised
\* by get_token, so that the next get_token makes a login request.
C26_CacheIsLatestLogin ==
    /\ \/ token_cache = None
       \/ token_cache = tripxplo.issued /\ Truthy(token_cache)
    /\ tripxplo.issued # None => token_cache = tripxplo.issued
    /\ (tripxplo.last.op # "none" /\ Truthy(tripxplo.last.before)) =>
          /\ tripxplo.last.login = "none"
          /\ token_cache = tripxplo.last.before
          /\ tripxplo.last.op = "get_token" =>
                tripxplo.last.result = Returned(tripxplo.last.before)
    /\ (tripxplo.last.op # "none" /\ ~Truthy(tripxplo.last.before)) =>
          tripxplo.last.login \in {"ok", "failed"}
    /\ tripxplo.last.login = "ok" =>
          /\ token_cache \in Tokens
          /\ tripxplo.last.op = "get_token" =>
                tripxplo.last.result = Returned(token_cache)
    /\ tripxplo.last.login = "failed" =>
          /\ token_cache = None
          /\ tripxplo.last.op = "get_token" => tripxplo.last.result = Raised
          /\ \A login_answer \in LoginAnswers :
                GetToken(token_cache, login_answer).login # "none"
    /\ tripxplo.logins <= tripxplo.calls

\* After a login that failed and one that succeeded, get_token returned
\* the cached token without a login request.
C26_Witness ==
    /\ tripxplo.calls = 3
    /\ tripxplo.logins = 2
    /\ tripxplo.last.op = "get_token"
    /\ tripxplo.last.login = "none"
    /\ tripxplo.last.before = "t2"
    /\ tripxplo.last.result = Returned("t2")
    /\ token_cache = "t2"

\* get_packages raised: the login failed and the cache is empty.
PackagesTokenFailure ==
    /\ tripxplo.last.login = "failed"
    /\ tripxplo.last.request = "none"
    /\ tripxplo.last.result = Raised
    /\ token_cache = None

\* C30 as stated: get_packages returns [] exactly when its request failed
\* after a token was obtained, and raises, leaving the cache empty, when
\* the token could not be obtained; get_available_hotels returns [] in
\* both cases.
C30_EmptyListExactlyOnFailure ==
    /\ tripxplo.last.op = "get_packages" =>
          /\ tripxplo.last.result = Returned(<<>>)
                <=> tripxplo.last.request \in {"rejected", "failed"}
          /\ tripxplo.last.login = "failed" <=> tripxplo.last.result = Raised
          /\ tripxplo.last.login = "failed" => PackagesTokenFailure
    /\ (tripxplo.last.op = "get_available_hotels"
          /\ \/ tripxplo.last.login = "failed"
             \/ tripxplo.last.request \in {"rejected", "failed"}) =>
            tripxplo.last.result = Returned(<<>>)

\* C30 amended: get_packages returns [] whenever its request failed after
\* a token was obtained, and otherwise the docs of the answer, which may be
\* [] as well; it raises, leaving the cache empty, exactly when the token
\* could not be obtained; get_available_hotels returns [] in both cases
\* and never raises.
C30_EmptyListOnFailure ==
    /\ tripxplo.last.op = "get_packages" =>
          /\ tripxplo.last.request \in {"rejected", "failed"} =>
                tripxplo.last.result = Returned(<<>>)
          /\ tripxplo.last.request = "ok" => tripxplo.last.result.ok
          /\ tripxplo.last.login = "failed" <=> tripxplo.last.result = Raised
          /\ tripxplo.last.login = "failed" => PackagesTokenFailure
    /\ tripxplo.last.op = "get_available_hotels" =>
          /\ tripxplo.last.result.ok
          /\ (\/ tripxplo.last.login = "failed"
              \/ tripxplo.last.request \in {"rejected", "failed"}) =>
                tripxplo.last.result = Returned(<<>>)
          /\ tripxplo.last.login = "failed" => token_cache = None

\* get_packages raised after a login without a token, and after it
\* get_available_hotels met the same failure and returned [].
C30_Witness ==
    /\ tripxplo.calls = 2
    /\ tripxplo.logins = 2
    /\ tripxplo.issued = None
    /\ tripxplo.last.op = "get_available_hotels"
    /\ tripxplo.last.login = "failed"
    /\ tripxplo.last.result = Returned(<<>>)
    /\ token_cache = None

\* The caller's request has run its store stage.
RanStore(c) ==
    \E i \in 1..Len(inflight[c].trace) : inflight[c].trace[i] = "store_conversation"

\* C27: a store stage writes the user row, then the assistant row, then
\* the session row, and stops at the first write that fails: the rows it
\* added are none, the user row, or the user row and right after it the
\* assistant row, and it upserted the session only after both; so in the
\* log, after the stores of the requests before and of both callers,
\* whichever of their writes failed, every assistant row comes right
\* after the user row its store wrote just before it.
C27_WritesInOrder ==
    /\ \A c \in Callers :
          RanStore(c) =>
              LET r == inflight[c]
                  n == Len(r.rows)
              IN  /\ n = (CASE r.fail_at = 1 -> 0 [] r.fail_at = 2 -> 1 [] OTHER -> 2)
                  /\ n >= 1 =>
                        /\ conversation_messages[r.rows[1]].message_type = "user"
                        /\ conversation_messages[r.rows[1]].content = r.state.user_input
                  /\ n = 2 =>
                        /\ r.rows[2] = r.rows[1] + 1
                        /\ conversation_messages[r.rows[2]].message_type = "assistant"
                        /\ conversation_messages[r.rows[2]].content
                              = r.state.response_message
                  /\ r.upsert_at # 0 <=> r.fail_at = 0
                  /\ r.upsert_at # 0 =>
                        /\ n = 2
                        /\ r.upsert_at > conversation_messages[r.rows[2]].timestamp
    /\ \A i \in 1..Len(conversation_messages) :
          conversation_messages[i].message_type = "assistant" =>
              /\ i > 1
              /\ conversation_messages[i - 1].message_type = "user"
              /\ conversation_messages[i - 1].session_id
                    = conversation_messages[i].session_id
              /\ conversation_messages[i - 1].timestamp + 1
                    = conversation_messages[i].timestamp

\* The store of one caller failed at its assistant row and left its user
\* row; the other caller's store then wrote both rows and the session.
C27_Witness ==
    /\ \A c \in Callers : inflight[c].pc = "done"
    /\ inflight["a"].fail_at = 2
    /\ Len(inflight["a"].rows) = 1
    /\ inflight["a"].upsert_at = 0
    /\ inflight["b"].fail_at = 0
    /\ inflight["b"].rows = <<inflight["a"].rows[1] + 1, inflight["a"].rows[1] + 2>>
    /\ inflight["b"].upsert_at # 0
    /\ inflight["a"].state.session_id = inflight["b"].state.session_id

\* No write of a store stage of the callers has failed.
AllWritesSucceeded == \A c \in Callers : inflight[c].fail_at = 0

\* C28: the store stage awaits nothing, and while no store write of the
\* overlapping requests has failed, the log of every session is a sequence
\* of pairs, a user row and right after it the assistant row written by
\* the same store stage, and the two rows of each request are one such
\* pair: no row of another request lies between them.
C28_OverlappingTurnsStoredInPairs ==
    /\ "store_conversation" \notin Awaits
    /\ AllWritesSucceeded =>
          /\ \A session_id \in OverlapSessionIds :
                LET log == SessionLog(session_id)
                IN  /\ Len(log) % 2 = 0
                    /\ \A k \in 1..(Len(log) \div 2) :
                          /\ log[2 * k - 1].message_type = "user"
                          /\ log[2 * k].message_type = "assistant"
                          /\ log[2 * k].id = log[2 * k - 1].id + 1
          /\ \A c \in Callers :
                RanStore(c) =>
                    LET log == SessionLog(inflight[c].state.session_id)
                    IN  \E k \in 1..(Len(log) \div 2) :
                           /\ log[2 * k - 1].id = inflight[c].rows[1]
                           /\ log[2 * k].id = inflight[c].rows[2]
                           /\ log[2 * k - 1].content = inflight[c].state.user_input
                           /\ log[2 * k].content = inflight[c].state.response_message

\* Two requests of one session overlapped, both suspended in a
\* collaborator call before either stored, and both were stored: the log
\* of the session ends with the pair of one and then the pair of the other.
C28_Witness ==
    /\ Overlapped
    /\ \A c \in Callers :
          /\ inflight[c].pc = "done"
          /\ inflight[c].fail_at = 0
          /\ inflight[c].read_at = inflight["a"].read_at
          /\ \E i \in 1..Len(inflight[c].trace) : inflight[c].trace[i] \in Awaits
    /\ inflight["a"].state.session_id = inflight["b"].state.session_id
    /\ LET log == SessionLog(inflight["a"].state.session_id)
           n == Len(log)
       IN  /\ n >= 4
           /\ <<log[n - 3].content, log[n - 2].message_type,
                log[n - 1].content, log[n].message_type>>
                 = <<"two", "assistant", "one", "assistant">>

\* C29: the store session a node opened is closed when the node returns,
\* whether its store operations succeeded or one of them failed: between
\* the nodes and at the end of the turn, no session the turn opened is open.
C29_ConnectionsClosed == open_connections = 0

====
